---- MODULE Spec2Model ----
(***************************************************************************)
(* Model of datasynth_py.config: the typed section tree (models.py), its   *)
(* canonical mapping (Config.to_dict), the normalizer (Config.from_dict),  *)
(* the merge engine (Config.override, _deep_merge) and the validator       *)
(* (validation.validate_config).                                           *)
(*                                                                         *)
(* Python values are tagged records, so that isinstance(), truthiness and  *)
(* "is None" are decided the way the interpreter decides them:             *)
(*   None, bool, int, float (in thousandths), str, list, dict and          *)
(*   dataclass instances (class name plus the instance __dict__).          *)
(* A top-level mapping (a payload, the extra bag, **overrides) is a plain  *)
(* function from keys to values; a nested dict is that function wrapped    *)
(* by D().                                                                 *)
(***************************************************************************)
EXTENDS Integers, Sequences, FiniteSets, TLC

VARIABLES
    pc,        \* "start" | "built" | "done" | "raised": where the calling
               \* script stands
    origin,    \* how cfg was obtained: "none" | "direct" | "from_dict"
    data,      \* the mapping last handed to Config.from_dict by the caller
    cfg,       \* the Config the caller holds
    op,        \* the operation applied to cfg: "none" | "to_dict" | ...
    arg,       \* the **overrides mapping of the last override call
    payload,   \* the result of the last to_dict call
    result,    \* the Config returned by the last override / round trip
    errors,    \* the list returned by the last validate_config call, or
               \* carried by the exception of the last Config.validate call
    raised,    \* the exception the last call raised, "none" when it returned
    blueprint, \* the blueprint factory that built cfg and its arguments
    after,     \* cfg and the overrides mapping as the last call left them
    trace      \* the steps DataSynth.generate took, in the order it took them

vars ==
    <<pc, origin, data, cfg, op, arg, payload, result, errors, raised,
      blueprint, after, trace>>

----------------------------------------------------------------------------
(* Bounds of the model *)

\* largest "count" of a legacy companies object tried besides BigCount
MaxCount == 3
\* a legacy count with two decimal digits, so that the zero padding of the
\* synthesized codes is exercised past one digit
BigCount == 11
\* number of sections set at once in a directly constructed Config
MaxSections == 2

----------------------------------------------------------------------------
(* Python values *)

None == [kind |-> "none"]
Missing == [kind |-> "missing"]
B(b) == [kind |-> "bool", b |-> b]
N(n) == [kind |-> "int", n |-> n]
Fl(m) == [kind |-> "float", milli |-> m]
S(s) == [kind |-> "str", s |-> s]
L(items) == [kind |-> "list", items |-> items]
D(d) == [kind |-> "dict", d |-> d]
Obj(cls, f) == [kind |-> "obj", cls |-> cls, f |-> f]

EmptyDict == [k \in {} |-> None]

IsDict(v) == v.kind = "dict"
IsList(v) == v.kind = "list"

\* bool(v)
Truthy(v) ==
    CASE v.kind = "none" -> FALSE
      [] v.kind = "bool" -> v.b
      [] v.kind = "int" -> v.n # 0
      [] v.kind = "float" -> v.milli # 0
      [] v.kind = "str" -> v.s # ""
      [] v.kind = "list" -> Len(v.items) > 0
      [] v.kind = "dict" -> DOMAIN v.d # {}
      [] OTHER -> TRUE

\* v < k and v > k for a number v (int or float) and an integer k
NumLess(v, k) == IF v.kind = "float" THEN v.milli < 1000 * k ELSE v.n < k
NumGreater(v, k) == IF v.kind = "float" THEN v.milli > 1000 * k ELSE v.n > k

\* d.get(k, default) on a plain mapping
GetOr(d, k, default) == IF k \in DOMAIN d THEN d[k] ELSE default
Get(d, k) == GetOr(d, k, None)

\* str.lower() on the strings of the model
Lower(s) ==
    CASE s = "Retail" -> "retail"
      [] s = "MEDIUM" -> "medium"
      [] s = "Bogus" -> "bogus"
      [] OTHER -> s

\* format(n, "03d") for n >= 0
Format03d(n) ==
    IF n < 10 THEN "00" \o ToString(n)
    ELSE IF n < 100 THEN "0" \o ToString(n)
    ELSE ToString(n)

----------------------------------------------------------------------------
(* Section types: each class's fields with their defaults *)

GlobalSettingsDefaults ==
    [industry |-> None, start_date |-> None, period_months |-> None,
     seed |-> None, group_currency |-> None, parallel |-> None,
     worker_threads |-> None, memory_limit_mb |-> None]

CompanyConfigDefaults ==
    [code |-> Missing, name |-> Missing, currency |-> S("USD"),
     country |-> S("US"), annual_transaction_volume |-> S("ten_k"),
     volume_weight |-> Fl(1000), fiscal_year_variant |-> S("K4")]

ChartOfAccountsSettingsDefaults ==
    [complexity |-> None, industry_specific |-> None]

TransactionSettingsDefaults ==
    [count |-> None, currency |-> None, anomaly_rate |-> None]

OutputSettingsDefaults ==
    [output_directory |-> None, formats |-> None,
     compression_enabled |-> None, compression_level |-> None]

FraudSettingsDefaults == [enabled |-> None, rate |-> None]

BankingSettingsDefaults ==
    [enabled |-> B(FALSE), retail_customers |-> None,
     business_customers |-> None, trusts |-> None,
     typologies_enabled |-> None, spoofing_enabled |-> None]

ScenarioSettingsDefaults ==
    [tags |-> None, profile |-> None, ml_training |-> B(FALSE),
     target_anomaly_ratio |-> None, description |-> None, metadata |-> None]

TemporalDriftSettingsDefaults ==
    [enabled |-> B(FALSE), amount_mean_drift |-> Fl(20),
     amount_variance_drift |-> Fl(10), anomaly_rate_drift |-> Fl(0),
     concept_drift_rate |-> Fl(0), drift_type |-> S("gradual"),
     seasonal_drift |-> B(TRUE), drift_start_period |-> None]

DataQualitySettingsDefaults ==
    [enabled |-> B(FALSE), missing_rate |-> Fl(50), typo_rate |-> Fl(20),
     format_variation_rate |-> Fl(30), duplicate_rate |-> Fl(10),
     encoding_issue_rate |-> Fl(5)]

GraphExportSettingsDefaults ==
    [enabled |-> B(FALSE), formats |-> None, graph_types |-> None,
     train_ratio |-> Fl(700), validation_ratio |-> Fl(150),
     output_subdirectory |-> S("graphs")]

AuditSettingsDefaults ==
    [enabled |-> B(FALSE), engagements |-> N(5),
     workpapers_per_engagement |-> N(20), evidence_per_workpaper |-> N(5),
     risks_per_engagement |-> N(15), findings_per_engagement |-> N(8)]

StreamingSettingsDefaults ==
    [enabled |-> B(FALSE), buffer_size |-> N(1000),
     enable_progress |-> B(TRUE), progress_interval |-> N(100),
     backpressure |-> S("block")]

RateLimitSettingsDefaults ==
    [enabled |-> B(FALSE), entities_per_second |-> Fl(10000000),
     burst_size |-> N(100), backpressure |-> S("block")]

ValidTimeSettingsDefaults ==
    [closed_probability |-> Fl(100), avg_validity_days |-> N(365),
     validity_stddev_days |-> N(90)]

TransactionTimeSettingsDefaults ==
    [avg_recording_delay_seconds |-> N(0), allow_backdating |-> B(FALSE),
     backdating_probability |-> Fl(10)]

TemporalAttributeSettingsDefaults ==
    [enabled |-> B(FALSE), valid_time |-> None, transaction_time |-> None,
     generate_version_chains |-> B(FALSE),
     avg_versions_per_entity |-> Fl(1500)]

CardinalityRuleDefaults ==
    [rule_type |-> Missing, min_count |-> None, max_count |-> None]

RelationshipTypeConfigDefaults ==
    [name |-> Missing, source_type |-> Missing, target_type |-> Missing,
     cardinality |-> None, weight |-> Fl(1000)]

RelationshipSettingsDefaults ==
    [enabled |-> B(FALSE), relationship_types |-> None,
     allow_orphans |-> B(TRUE), orphan_probability |-> Fl(10),
     allow_circular |-> B(FALSE), max_circular_depth |-> N(3)]

\* dataclasses.fields(cls) with each field's default
Defaults(cls) ==
    CASE cls = "GlobalSettings" -> GlobalSettingsDefaults
      [] cls = "CompanyConfig" -> CompanyConfigDefaults
      [] cls = "ChartOfAccountsSettings" -> ChartOfAccountsSettingsDefaults
      [] cls = "TransactionSettings" -> TransactionSettingsDefaults
      [] cls = "OutputSettings" -> OutputSettingsDefaults
      [] cls = "FraudSettings" -> FraudSettingsDefaults
      [] cls = "BankingSettings" -> BankingSettingsDefaults
      [] cls = "ScenarioSettings" -> ScenarioSettingsDefaults
      [] cls = "TemporalDriftSettings" -> TemporalDriftSettingsDefaults
      [] cls = "DataQualitySettings" -> DataQualitySettingsDefaults
      [] cls = "GraphExportSettings" -> GraphExportSettingsDefaults
      [] cls = "AuditSettings" -> AuditSettingsDefaults
      [] cls = "StreamingSettings" -> StreamingSettingsDefaults
      [] cls = "RateLimitSettings" -> RateLimitSettingsDefaults
      [] cls = "ValidTimeSettings" -> ValidTimeSettingsDefaults
      [] cls = "TransactionTimeSettings" -> TransactionTimeSettingsDefaults
      [] cls = "TemporalAttributeSettings" -> TemporalAttributeSettingsDefaults
      [] cls = "CardinalityRule" -> CardinalityRuleDefaults
      [] cls = "RelationshipTypeConfig" -> RelationshipTypeConfigDefaults
      [] cls = "RelationshipSettings" -> RelationshipSettingsDefaults

\* cls(**kwargs): the keyword arguments over the class's defaults
New(cls, kwargs) == Obj(cls, kwargs @@ Defaults(cls))

\* Config(...): the root container; sections default to None, extra to {}
ConfigDefaults ==
    [global_settings |-> None, companies |-> None, chart_of_accounts |-> None,
     transactions |-> None, output |-> None, fraud |-> None, banking |-> None,
     scenario |-> None, temporal |-> None, data_quality |-> None,
     graph_export |-> None, audit |-> None, streaming |-> None,
     rate_limit |-> None, temporal_attributes |-> None,
     relationships |-> None, extra |-> EmptyDict]

NewConfig(kwargs) == kwargs @@ ConfigDefaults

----------------------------------------------------------------------------
(* Canonicalizer: Config.to_dict *)

_strip_none(values) ==
    [k \in {x \in DOMAIN values : values[x] # None} |-> values[k]]

\* a section emitted under its key whenever it is present (global,
\* chart_of_accounts)
SectionAlways(key, sec) ==
    IF sec = None THEN EmptyDict ELSE key :> D(_strip_none(sec.f))

\* a section emitted under its key only when its stripped dict is non-empty
\* (fraud, banking, scenario, temporal, data_quality, graph_export, audit,
\* streaming, rate_limit)
SectionIfNonEmpty(key, sec) ==
    IF sec = None THEN EmptyDict
    ELSE LET d == _strip_none(sec.f)
         IN IF DOMAIN d # {} THEN key :> D(d) ELSE EmptyDict

CompaniesToDict(companies) ==
    IF companies = None THEN EmptyDict
    ELSE "companies" :>
            L([i \in 1..Len(companies.items) |->
                  D(_strip_none(companies.items[i].f))])

\* the transactions block: count and currency are read and dropped, nothing
\* is ever put into cli_transactions
TransactionsToDict(transactions) ==
    IF transactions = None THEN EmptyDict
    ELSE LET tx_dict == _strip_none(transactions.f)
             cli_transactions == EmptyDict
         IN IF DOMAIN cli_transactions # {}
            THEN "transactions" :> D(cli_transactions)
            ELSE EmptyDict

OutputToDict(output) ==
    IF output = None THEN EmptyDict
    ELSE LET out_dict == _strip_none(output.f)
             dir == IF "output_directory" \in DOMAIN out_dict
                    THEN "output_directory" :> out_dict["output_directory"]
                    ELSE EmptyDict
             fmts == IF "formats" \in DOMAIN out_dict
                     THEN "formats" :> out_dict["formats"]
                     ELSE EmptyDict
             compression ==
                 (IF "compression_enabled" \in DOMAIN out_dict
                  THEN "enabled" :> out_dict["compression_enabled"]
                  ELSE EmptyDict)
                 @@ (IF "compression_level" \in DOMAIN out_dict
                     THEN "level" :> out_dict["compression_level"]
                     ELSE EmptyDict)
             comp == IF "compression_enabled" \in DOMAIN out_dict
                        \/ "compression_level" \in DOMAIN out_dict
                     THEN "compression" :> D(compression)
                     ELSE EmptyDict
             cli_output == dir @@ fmts @@ comp
         IN IF DOMAIN cli_output # {}
            THEN "output" :> D(cli_output)
            ELSE EmptyDict

TemporalAttributesToDict(ta) ==
    IF ta = None THEN EmptyDict
    ELSE "temporal_attributes" :>
           D([enabled |-> ta.f.enabled,
              generate_version_chains |-> ta.f.generate_version_chains,
              avg_versions_per_entity |-> ta.f.avg_versions_per_entity]
             @@ (IF ta.f.valid_time # None
                 THEN "valid_time" :> D(_strip_none(ta.f.valid_time.f))
                 ELSE EmptyDict)
             @@ (IF ta.f.transaction_time # None
                 THEN "transaction_time" :>
                          D(_strip_none(ta.f.transaction_time.f))
                 ELSE EmptyDict))

CardinalityToDict(c) ==
    D(("rule_type" :> c.f.rule_type)
      @@ (IF Truthy(c.f.min_count) THEN "min" :> c.f.min_count
          ELSE EmptyDict)
      @@ (IF Truthy(c.f.max_count) THEN "max" :> c.f.max_count
          ELSE EmptyDict))

RelationshipTypeToDict(rt) ==
    D([name |-> rt.f.name, source_type |-> rt.f.source_type,
       target_type |-> rt.f.target_type, weight |-> rt.f.weight]
      @@ (IF Truthy(rt.f.cardinality)
          THEN "cardinality" :> CardinalityToDict(rt.f.cardinality)
          ELSE EmptyDict))

RelationshipsToDict(rel) ==
    IF rel = None THEN EmptyDict
    ELSE "relationships" :>
           D([enabled |-> rel.f.enabled,
              allow_orphans |-> rel.f.allow_orphans,
              orphan_probability |-> rel.f.orphan_probability,
              allow_circular |-> rel.f.allow_circular,
              max_circular_depth |-> rel.f.max_circular_depth]
             @@ (IF rel.f.relationship_types # None
                 THEN "relationship_types" :>
                        L([i \in 1..Len(rel.f.relationship_types.items) |->
                             RelationshipTypeToDict(
                                 rel.f.relationship_types.items[i])])
                 ELSE EmptyDict))

\* the payload built from the known sections, before the extra bag
SectionsPayload(c) ==
    SectionAlways("global", c.global_settings)
    @@ CompaniesToDict(c.companies)
    @@ SectionAlways("chart_of_accounts", c.chart_of_accounts)
    @@ TransactionsToDict(c.transactions)
    @@ OutputToDict(c.output)
    @@ SectionIfNonEmpty("fraud", c.fraud)
    @@ SectionIfNonEmpty("banking", c.banking)
    @@ SectionIfNonEmpty("scenario", c.scenario)
    @@ SectionIfNonEmpty("temporal", c.temporal)
    @@ SectionIfNonEmpty("data_quality", c.data_quality)
    @@ SectionIfNonEmpty("graph_export", c.graph_export)
    @@ SectionIfNonEmpty("audit", c.audit)
    @@ SectionIfNonEmpty("streaming", c.streaming)
    @@ SectionIfNonEmpty("rate_limit", c.rate_limit)
    @@ TemporalAttributesToDict(c.temporal_attributes)
    @@ RelationshipsToDict(c.relationships)

\* payload.update(self.extra): an extra-bag entry replaces the payload's
\* entry of the same key
UpdateWith(p, extra) == extra @@ p

to_dict(c) == UpdateWith(SectionsPayload(c), c.extra)

----------------------------------------------------------------------------
(* Normalizer: Config.from_dict *)

known_keys ==
    {"global", "companies", "chart_of_accounts", "transactions", "output",
     "fraud", "banking", "scenario", "temporal", "data_quality",
     "graph_export", "audit", "streaming", "rate_limit",
     "temporal_attributes", "relationships"}

\* keeps the payload's keys that are fields of cls and calls cls(**filtered)
_build_dataclass(cls, p) ==
    IF p = None THEN None
    ELSE New(cls, [k \in DOMAIN p.d \cap DOMAIN Defaults(cls) |-> p.d[k]])

\* LegacyCompanies numbering the entities from 0 (i in place of i + 1)
LegacyCompanies_FromZero(companies_data) ==
    LET count == GetOr(companies_data.d, "count", N(1)).n
    IN L([j \in 1..count |->
            LET i == j - 1
            IN New("CompanyConfig",
                   [code |-> S("C" \o Format03d(i)),
                    name |-> S("Company " \o ToString(i))])])

\* the companies of the legacy object: range(count) entities, the one of
\* index i with code f"C{i + 1:03d}" and name f"Company {i + 1}"
LegacyCompanies(companies_data) ==
    LET count == GetOr(companies_data.d, "count", N(1)).n
    IN L([j \in 1..count |->
            LET i == j - 1
            IN New("CompanyConfig",
                   [code |-> S("C" \o Format03d(i + 1)),
                    name |-> S("Company " \o ToString(i + 1))])])

NormalizeCompanies(companies_data) ==
    IF companies_data = None THEN None
    ELSE IF IsList(companies_data)
    THEN L([i \in 1..Len(companies_data.items) |->
               New("CompanyConfig", companies_data.items[i].d)])
    ELSE IF IsDict(companies_data)
    THEN LegacyCompanies(companies_data)
    ELSE None

\* HoistIndustry without the "industry is None" test: the hint always wins
HoistIndustry_Always(global_settings, companies_data) ==
    LET industry == GetOr(companies_data.d, "industry", S("retail"))
    IN IF global_settings = None
       THEN New("GlobalSettings", [industry |-> industry])
       ELSE Obj("GlobalSettings",
                [global_settings.f EXCEPT !.industry = industry])

\* a hoisting that builds the global section anew from the hint alone
HoistIndustry_Fresh(global_settings, companies_data) ==
    LET industry == GetOr(companies_data.d, "industry", S("retail"))
    IN IF global_settings = None \/ global_settings.f.industry = None
       THEN New("GlobalSettings", [industry |-> industry])
       ELSE global_settings

\* "Set industry in global if not already set"
HoistIndustry(global_settings, companies_data) ==
    LET industry == GetOr(companies_data.d, "industry", S("retail"))
    IN IF global_settings = None
       THEN New("GlobalSettings", [industry |-> industry])
       ELSE IF global_settings.f.industry = None
       THEN New("GlobalSettings",
                [industry |-> industry,
                 start_date |-> global_settings.f.start_date,
                 period_months |-> global_settings.f.period_months,
                 seed |-> global_settings.f.seed,
                 group_currency |-> global_settings.f.group_currency,
                 parallel |-> global_settings.f.parallel,
                 worker_threads |-> global_settings.f.worker_threads,
                 memory_limit_mb |-> global_settings.f.memory_limit_mb])
       ELSE global_settings

NormalizeGlobal(mapping) ==
    LET global_settings == _build_dataclass("GlobalSettings",
                                            Get(mapping, "global"))
        companies_data == Get(mapping, "companies")
    IN IF companies_data # None /\ ~IsList(companies_data)
          /\ IsDict(companies_data)
       THEN HoistIndustry(global_settings, companies_data)
       ELSE global_settings

\* a fallback that also fills a section that is present without complexity
NormalizeChartOfAccounts_FillMissing(mapping) ==
    LET chart_of_accounts ==
            _build_dataclass("ChartOfAccountsSettings",
                             Get(mapping, "chart_of_accounts"))
        complexity == IF IsDict(Get(mapping, "companies"))
                      THEN Get(Get(mapping, "companies").d, "complexity")
                      ELSE None
    IN IF Truthy(complexity)
          /\ (chart_of_accounts = None
                \/ chart_of_accounts.f.complexity = None)
       THEN New("ChartOfAccountsSettings", [complexity |-> complexity])
       ELSE chart_of_accounts

\* "Handle legacy format where complexity was in companies"
NormalizeChartOfAccounts(mapping) ==
    LET chart_of_accounts ==
            _build_dataclass("ChartOfAccountsSettings",
                             Get(mapping, "chart_of_accounts"))
    IN IF chart_of_accounts = None /\ IsDict(Get(mapping, "companies"))
       THEN LET complexity == Get(Get(mapping, "companies").d, "complexity")
            IN IF Truthy(complexity)
               THEN New("ChartOfAccountsSettings",
                        [complexity |-> complexity])
               ELSE None
       ELSE chart_of_accounts

NormalizeTemporalAttributes(ta_data) ==
    IF ta_data = None THEN None
    ELSE New("TemporalAttributeSettings",
             [enabled |-> GetOr(ta_data.d, "enabled", B(FALSE)),
              valid_time |->
                  _build_dataclass("ValidTimeSettings",
                                   Get(ta_data.d, "valid_time")),
              transaction_time |->
                  _build_dataclass("TransactionTimeSettings",
                                   Get(ta_data.d, "transaction_time")),
              generate_version_chains |->
                  GetOr(ta_data.d, "generate_version_chains", B(FALSE)),
              avg_versions_per_entity |->
                  GetOr(ta_data.d, "avg_versions_per_entity", Fl(1500))])

NormalizeRelationshipType(rt) ==
    New("RelationshipTypeConfig",
        [name |-> rt.d["name"],
         source_type |-> rt.d["source_type"],
         target_type |-> rt.d["target_type"],
         cardinality |->
             IF Truthy(Get(rt.d, "cardinality"))
             THEN New("CardinalityRule",
                      [rule_type |-> GetOr(rt.d["cardinality"].d, "rule_type",
                                           S("one_to_many")),
                       min_count |-> Get(rt.d["cardinality"].d, "min"),
                       max_count |-> Get(rt.d["cardinality"].d, "max")])
             ELSE None,
         weight |-> GetOr(rt.d, "weight", Fl(1000))])

NormalizeRelationships(rel_data) ==
    IF rel_data = None THEN None
    ELSE New("RelationshipSettings",
             [enabled |-> GetOr(rel_data.d, "enabled", B(FALSE)),
              relationship_types |->
                  IF Truthy(Get(rel_data.d, "relationship_types"))
                  THEN L([i \in 1..Len(rel_data.d["relationship_types"].items)
                            |-> NormalizeRelationshipType(
                                  rel_data.d["relationship_types"].items[i])])
                  ELSE None,
              allow_orphans |-> GetOr(rel_data.d, "allow_orphans", B(TRUE)),
              orphan_probability |->
                  GetOr(rel_data.d, "orphan_probability", Fl(10)),
              allow_circular |->
                  GetOr(rel_data.d, "allow_circular", B(FALSE)),
              max_circular_depth |->
                  GetOr(rel_data.d, "max_circular_depth", N(3))])

\* ExtraOf without the known_keys filter
ExtraOf_All(mapping) == mapping

\* the extra bag: the items of the mapping whose key is not a known key
ExtraOf(mapping) ==
    [k \in {x \in DOMAIN mapping : x \notin known_keys} |-> mapping[k]]

from_dict(mapping) ==
    [global_settings |-> NormalizeGlobal(mapping),
     companies |-> NormalizeCompanies(Get(mapping, "companies")),
     chart_of_accounts |-> NormalizeChartOfAccounts(mapping),
     transactions |-> _build_dataclass("TransactionSettings",
                                       Get(mapping, "transactions")),
     output |-> _build_dataclass("OutputSettings", Get(mapping, "output")),
     fraud |-> _build_dataclass("FraudSettings", Get(mapping, "fraud")),
     banking |-> _build_dataclass("BankingSettings", Get(mapping, "banking")),
     scenario |-> _build_dataclass("ScenarioSettings",
                                   Get(mapping, "scenario")),
     temporal |-> _build_dataclass("TemporalDriftSettings",
                                   Get(mapping, "temporal")),
     data_quality |-> _build_dataclass("DataQualitySettings",
                                       Get(mapping, "data_quality")),
     graph_export |-> _build_dataclass("GraphExportSettings",
                                       Get(mapping, "graph_export")),
     audit |-> _build_dataclass("AuditSettings", Get(mapping, "audit")),
     streaming |-> _build_dataclass("StreamingSettings",
                                    Get(mapping, "streaming")),
     rate_limit |-> _build_dataclass("RateLimitSettings",
                                     Get(mapping, "rate_limit")),
     temporal_attributes |->
         NormalizeTemporalAttributes(Get(mapping, "temporal_attributes")),
     relationships |-> NormalizeRelationships(Get(mapping, "relationships")),
     extra |-> ExtraOf(mapping)]

\* What from_dict raises. The statements are taken in the order of the code
\* and the first one that raises decides.

\* payload.items() on a payload that is not None and not a dict
BuildRaises(p) ==
    IF p # None /\ ~IsDict(p) THEN "AttributeError" ELSE "none"

\* CompanyConfig(**c): c must be a mapping, name only fields of the class,
\* and give the two fields that have no default
CompanyRaises(c) ==
    IF \/ ~IsDict(c)
       \/ ~(DOMAIN c.d \subseteq DOMAIN CompanyConfigDefaults)
       \/ ~({"code", "name"} \subseteq DOMAIN c.d)
    THEN "TypeError" ELSE "none"

\* range(count) on a count that is not an integer
CompaniesRaises(companies_data) ==
    IF companies_data = None THEN "none"
    ELSE IF IsList(companies_data)
    THEN IF \E i \in 1..Len(companies_data.items) :
                CompanyRaises(companies_data.items[i]) # "none"
         THEN "TypeError" ELSE "none"
    ELSE IF IsDict(companies_data)
    THEN IF GetOr(companies_data.d, "count", N(1)).kind # "int"
         THEN "TypeError" ELSE "none"
    ELSE "none"

\* the first exception of a sequence of outcomes
RECURSIVE FirstRaise(_)
FirstRaise(outcomes) ==
    IF outcomes = <<>> THEN "none"
    ELSE IF Head(outcomes) # "none" THEN Head(outcomes)
    ELSE FirstRaise(Tail(outcomes))

TemporalAttributesRaises(ta_data) ==
    IF ta_data = None THEN "none"
    ELSE IF ~IsDict(ta_data) THEN "AttributeError"
    ELSE FirstRaise(<<BuildRaises(Get(ta_data.d, "valid_time")),
                      BuildRaises(Get(ta_data.d, "transaction_time"))>>)

\* rt.get("cardinality"), rt["cardinality"].get(...), then rt["name"],
\* rt["source_type"], rt["target_type"]
RelationshipTypeRaises(rt) ==
    IF ~IsDict(rt) THEN "AttributeError"
    ELSE IF Truthy(Get(rt.d, "cardinality")) /\ ~IsDict(rt.d["cardinality"])
    THEN "AttributeError"
    ELSE IF ~({"name", "source_type", "target_type"} \subseteq DOMAIN rt.d)
    THEN "KeyError"
    ELSE "none"

RelationshipsRaises(rel_data) ==
    IF rel_data = None THEN "none"
    ELSE IF ~IsDict(rel_data) THEN "AttributeError"
    ELSE LET rts == Get(rel_data.d, "relationship_types")
         IN IF ~Truthy(rts) THEN "none"
            ELSE IF ~IsList(rts) THEN "AttributeError"
            ELSE FirstRaise([i \in 1..Len(rts.items) |->
                                RelationshipTypeRaises(rts.items[i])])

FromDictRaises(mapping) ==
    FirstRaise(<<BuildRaises(Get(mapping, "global")),
                 CompaniesRaises(Get(mapping, "companies")),
                 BuildRaises(Get(mapping, "chart_of_accounts")),
                 BuildRaises(Get(mapping, "transactions")),
                 BuildRaises(Get(mapping, "output")),
                 BuildRaises(Get(mapping, "fraud")),
                 BuildRaises(Get(mapping, "banking")),
                 BuildRaises(Get(mapping, "scenario")),
                 BuildRaises(Get(mapping, "temporal")),
                 BuildRaises(Get(mapping, "data_quality")),
                 BuildRaises(Get(mapping, "graph_export")),
                 BuildRaises(Get(mapping, "audit")),
                 BuildRaises(Get(mapping, "streaming")),
                 BuildRaises(Get(mapping, "rate_limit")),
                 TemporalAttributesRaises(Get(mapping, "temporal_attributes")),
                 RelationshipsRaises(Get(mapping, "relationships"))>>)

----------------------------------------------------------------------------
(* Merge engine: _deep_merge and Config.override *)

_is_dataclass_instance(value) == value.kind = "obj"

\* the value the merged mapping gets under a key that overrides names, when
\* the recursive case does not apply
MergeLeaf(value) ==
    IF _is_dataclass_instance(value) THEN D(_strip_none(value.f)) ELSE value

\* a merge that never descends: every key of overrides replaces
_deep_merge_Shallow(base, overrides) ==
    [key \in DOMAIN base \cup DOMAIN overrides |->
        IF key \notin DOMAIN overrides THEN base[key]
        ELSE MergeLeaf(overrides[key])]

RECURSIVE _deep_merge(_, _)
_deep_merge(base, overrides) ==
    [key \in DOMAIN base \cup DOMAIN overrides |->
        IF key \notin DOMAIN overrides THEN base[key]
        ELSE LET value == overrides[key]
             IN IF IsDict(value) /\ IsDict(Get(base, key))
                THEN D(_deep_merge(base[key].d, value.d))
                ELSE MergeLeaf(value)]

override(c, overrides) == from_dict(_deep_merge(to_dict(c), overrides))

----------------------------------------------------------------------------
(* Validator: validate_config *)

ValidationErrorDetail(path, message, value) ==
    [path |-> path, message |-> message, value |-> value]

valid_industries ==
    {"manufacturing", "retail", "financial_services", "healthcare",
     "technology", "professional_services", "energy", "transportation",
     "real_estate", "telecommunications"}

PeriodMonthsErrors(p) ==
    LET period_months == Get(GetOr(p, "global", D(EmptyDict)).d,
                             "period_months")
    IN IF period_months # None
          /\ (NumLess(period_months, 1) \/ NumGreater(period_months, 120))
       THEN <<ValidationErrorDetail("global.period_months",
                                    "must be between 1 and 120",
                                    period_months)>>
       ELSE <<>>

IndustryErrors(p) ==
    LET industry == Get(GetOr(p, "global", D(EmptyDict)).d, "industry")
    IN IF industry # None /\ Lower(industry.s) \notin valid_industries
       THEN <<ValidationErrorDetail("global.industry",
                                    "must be one of valid_industries",
                                    industry)>>
       ELSE <<>>

\* the checks of one company, reported under its position counted from 1
CompanyErrors_OneBased(i, company) ==
    (IF ~Truthy(Get(company.d, "code"))
     THEN <<ValidationErrorDetail("companies[" \o ToString(i + 1)
                                      \o "].code",
                                  "is required", Get(company.d, "code"))>>
     ELSE <<>>)
    \o (IF ~Truthy(Get(company.d, "name"))
        THEN <<ValidationErrorDetail("companies[" \o ToString(i + 1)
                                         \o "].name",
                                     "is required", Get(company.d, "name"))>>
        ELSE <<>>)

\* the checks of one company, i being its index in the list (from 0)
CompanyErrors(i, company) ==
    (IF ~Truthy(Get(company.d, "code"))
     THEN <<ValidationErrorDetail("companies[" \o ToString(i) \o "].code",
                                  "is required", Get(company.d, "code"))>>
     ELSE <<>>)
    \o (IF ~Truthy(Get(company.d, "name"))
        THEN <<ValidationErrorDetail("companies[" \o ToString(i) \o "].name",
                                     "is required", Get(company.d, "name"))>>
        ELSE <<>>)

\* for i, company in enumerate(companies), from position i (1-based) on
RECURSIVE EachCompanyErrors(_, _)
EachCompanyErrors(items, i) ==
    IF i > Len(items) THEN <<>>
    ELSE CompanyErrors(i - 1, items[i]) \o EachCompanyErrors(items, i + 1)

CompaniesErrors(p) ==
    LET companies == GetOr(p, "companies", L(<<>>))
    IN IF IsList(companies)
       THEN (IF Len(companies.items) < 1
             THEN <<ValidationErrorDetail("companies",
                                          "must have at least one company",
                                          N(Len(companies.items)))>>
             ELSE <<>>)
            \o EachCompanyErrors(companies.items, 1)
       ELSE <<>>

ComplexityErrors(p) ==
    LET complexity == Get(GetOr(p, "chart_of_accounts", D(EmptyDict)).d,
                          "complexity")
    IN IF complexity # None
          /\ Lower(complexity.s) \notin {"small", "medium", "large"}
       THEN <<ValidationErrorDetail("chart_of_accounts.complexity",
                                    "must be small, medium, or large",
                                    complexity)>>
       ELSE <<>>

FraudRateErrors(p) ==
    LET fraud_rate == Get(GetOr(p, "fraud", D(EmptyDict)).d, "rate")
    IN IF fraud_rate # None
          /\ (NumLess(fraud_rate, 0) \/ NumGreater(fraud_rate, 1))
       THEN <<ValidationErrorDetail("fraud.rate", "must be between 0 and 1",
                                    fraud_rate)>>
       ELSE <<>>

AnomalyRateErrors(p) ==
    LET anomaly_rate == Get(GetOr(p, "transactions", D(EmptyDict)).d,
                            "anomaly_rate")
    IN IF anomaly_rate # None
          /\ (NumLess(anomaly_rate, 0) \/ NumGreater(anomaly_rate, 1))
       THEN <<ValidationErrorDetail("transactions.anomaly_rate",
                                    "must be between 0 and 1", anomaly_rate)>>
       ELSE <<>>

\* the rules applied to a payload, in the order of the code
PayloadErrors(p) ==
    PeriodMonthsErrors(p) \o IndustryErrors(p) \o CompaniesErrors(p)
    \o ComplexityErrors(p) \o FraudRateErrors(p) \o AnomalyRateErrors(p)

validate_config(c) == PayloadErrors(to_dict(c))

\* a Config.validate that raises at the first violation it meets
ConfigValidate_FirstOnly(c) ==
    LET errs == validate_config(c)
    IN IF errs # <<>>
       THEN [raised |-> "ConfigValidationError", errors |-> <<Head(errs)>>]
       ELSE [raised |-> "none", errors |-> <<>>]

\* a validate that raises for no tree
ConfigValidate_Never(c) == [raised |-> "none", errors |-> <<>>]

\* Config.validate: errors = validate_config(self); if errors: raise
\* ConfigValidationError(errors), whose errors attribute is that list
ConfigValidate(c) ==
    LET errs == validate_config(c)
    IN IF errs # <<>>
       THEN [raised |-> "ConfigValidationError", errors |-> errs]
       ELSE [raised |-> "none", errors |-> <<>>]

----------------------------------------------------------------------------
(* Blueprints: the factories of blueprints.py and their registry *)

_transactions_to_volume(count) ==
    IF count <= 10000 THEN "ten_k"
    ELSE IF count <= 100000 THEN "hundred_k"
    ELSE IF count <= 1000000 THEN "one_m"
    ELSE IF count <= 10000000 THEN "ten_m"
    ELSE "hundred_m"

\* a company list that numbers its entries from zero
BlueprintCompanies_FromZero(letter, label, companies, volume) ==
    L([i \in 1..companies |->
        New("CompanyConfig",
            [code |-> S(letter \o Format03d(i - 1)),
             name |-> S(label \o " Company " \o ToString(i - 1)),
             currency |-> S("USD"), country |-> S("US"),
             annual_transaction_volume |-> S(volume)])])

\* [CompanyConfig(code=f"{letter}{i + 1:03d}", name=f"{label} Company
\* {i + 1}", ...) for i in range(companies)]; position i + 1 is 1-based here
BlueprintCompanies(letter, label, companies, volume) ==
    L([i \in 1..companies |->
        New("CompanyConfig",
            [code |-> S(letter \o Format03d(i)),
             name |-> S(label \o " Company " \o ToString(i)),
             currency |-> S("USD"), country |-> S("US"),
             annual_transaction_volume |-> S(volume)])])

\* GlobalSettings(industry=..., start_date="2024-01-01", period_months=12)
BlueprintGlobal(industry) ==
    New("GlobalSettings",
        [industry |-> S(industry), start_date |-> S("2024-01-01"),
         period_months |-> N(12)])

\* the single company of banking_aml, ml_training and audit_engagement
SingleCompany(code, name) ==
    L(<<New("CompanyConfig",
            [code |-> S(code), name |-> S(name), currency |-> S("USD"),
             country |-> S("US"),
             annual_transaction_volume |-> S("hundred_k")])>>)

retail_small(companies, transactions) ==
    NewConfig(
        [global_settings |-> BlueprintGlobal("retail"),
         companies |->
            BlueprintCompanies("R", "Retail", companies,
                               _transactions_to_volume(transactions)),
         chart_of_accounts |->
            New("ChartOfAccountsSettings", [complexity |-> S("small")])])

banking_medium(companies, transactions) ==
    NewConfig(
        [global_settings |-> BlueprintGlobal("financial_services"),
         companies |->
            BlueprintCompanies("F", "Financial Services", companies,
                               _transactions_to_volume(transactions)),
         chart_of_accounts |->
            New("ChartOfAccountsSettings", [complexity |-> S("medium")]),
         fraud |->
            New("FraudSettings", [enabled |-> B(TRUE), rate |-> Fl(10)])])

manufacturing_large(companies, transactions) ==
    NewConfig(
        [global_settings |-> BlueprintGlobal("manufacturing"),
         companies |->
            BlueprintCompanies("M", "Manufacturing", companies,
                               _transactions_to_volume(transactions)),
         chart_of_accounts |->
            New("ChartOfAccountsSettings", [complexity |-> S("large")])])

\* int(customers * share) for customers >= 0, the share in thousandths
IntOfShare(customers, share) == (customers * share) \div 1000

banking_aml(customers, typologies) ==
    NewConfig(
        [global_settings |-> BlueprintGlobal("financial_services"),
         companies |-> SingleCompany("BANK001", "DataSynth Bank"),
         chart_of_accounts |->
            New("ChartOfAccountsSettings", [complexity |-> S("medium")]),
         banking |->
            New("BankingSettings",
                [enabled |-> B(TRUE),
                 retail_customers |-> N(IntOfShare(customers, 700)),
                 business_customers |-> N(IntOfShare(customers, 250)),
                 trusts |-> N(IntOfShare(customers, 50)),
                 typologies_enabled |-> B(typologies)]),
         scenario |->
            New("ScenarioSettings",
                [tags |-> L(<<S("banking"), S("aml"), S("compliance")>>),
                 ml_training |-> B(TRUE)])])

ml_training(industry, anomaly_ratio, with_data_quality) ==
    NewConfig(
        [global_settings |-> BlueprintGlobal(industry),
         companies |-> SingleCompany("ML001", "ML Training Corp"),
         chart_of_accounts |->
            New("ChartOfAccountsSettings", [complexity |-> S("medium")]),
         fraud |->
            New("FraudSettings",
                [enabled |-> B(TRUE), rate |-> anomaly_ratio]),
         data_quality |->
            IF with_data_quality
            THEN New("DataQualitySettings",
                     [enabled |-> B(with_data_quality),
                      missing_rate |-> Fl(30), typo_rate |-> Fl(20)])
            ELSE None,
         scenario |->
            New("ScenarioSettings",
                [tags |-> L(<<S("ml_training"), S("labeled_data")>>),
                 ml_training |-> B(TRUE),
                 target_anomaly_ratio |-> anomaly_ratio]),
         graph_export |->
            New("GraphExportSettings",
                [enabled |-> B(TRUE),
                 formats |-> L(<<S("pytorch_geometric")>>)])])

audit_engagement(engagements, with_evidence) ==
    NewConfig(
        [global_settings |-> BlueprintGlobal("financial_services"),
         companies |-> SingleCompany("AUDITEE001", "Auditee Corporation"),
         chart_of_accounts |->
            New("ChartOfAccountsSettings", [complexity |-> S("medium")]),
         audit |->
            New("AuditSettings",
                [enabled |-> B(TRUE), engagements |-> N(engagements),
                 workpapers_per_engagement |-> N(20),
                 evidence_per_workpaper |->
                    N(IF with_evidence THEN 5 ELSE 0),
                 risks_per_engagement |-> N(15),
                 findings_per_engagement |-> N(8)]),
         scenario |->
            New("ScenarioSettings",
                [tags |-> L(<<S("audit"), S("isa")>>)])])

\* with_graph_export: override(graph_export=graph_settings.__dict__), the
\* __dict__ holding every field of the section, the None ones included
with_graph_export(base_config, formats) ==
    LET given == IF formats = None THEN L(<<S("pytorch_geometric")>>)
                 ELSE formats
        graph_settings == New("GraphExportSettings",
                              [enabled |-> B(TRUE), formats |-> given])
    IN override(base_config, "graph_export" :> D(graph_settings.f))

\* the keys of _REGISTRY, in the order the dict literal gives them
_REGISTRY ==
    <<"retail_small", "banking_medium", "manufacturing_large",
      "banking_aml", "ml_training", "audit_engagement">>

\* the default arguments of a factory that gives every company no entry
DefaultArgs_NoCompanies(name) ==
    CASE name = "retail_small" -> [companies |-> 0, transactions |-> 5000]
      [] name = "banking_medium" ->
            [companies |-> 0, transactions |-> 20000]
      [] name = "manufacturing_large" ->
            [companies |-> 0, transactions |-> 100000]
      [] name = "banking_aml" -> [customers |-> 1000, typologies |-> TRUE]
      [] name = "ml_training" ->
            [industry |-> "manufacturing", anomaly_ratio |-> Fl(50),
             with_data_quality |-> TRUE]
      [] name = "audit_engagement" ->
            [engagements |-> 5, with_evidence |-> TRUE]

\* the default arguments in each factory's signature
DefaultArgs(name) ==
    CASE name = "retail_small" -> [companies |-> 3, transactions |-> 5000]
      [] name = "banking_medium" ->
            [companies |-> 5, transactions |-> 20000]
      [] name = "manufacturing_large" ->
            [companies |-> 10, transactions |-> 100000]
      [] name = "banking_aml" -> [customers |-> 1000, typologies |-> TRUE]
      [] name = "ml_training" ->
            [industry |-> "manufacturing", anomaly_ratio |-> Fl(50),
             with_data_quality |-> TRUE]
      [] name = "audit_engagement" ->
            [engagements |-> 5, with_evidence |-> TRUE]

\* get(name)(**args)
get(name, args) ==
    CASE name = "retail_small" ->
            retail_small(args.companies, args.transactions)
      [] name = "banking_medium" ->
            banking_medium(args.companies, args.transactions)
      [] name = "manufacturing_large" ->
            manufacturing_large(args.companies, args.transactions)
      [] name = "banking_aml" ->
            banking_aml(args.customers, args.typologies)
      [] name = "ml_training" ->
            ml_training(args.industry, args.anomaly_ratio,
                        args.with_data_quality)
      [] name = "audit_engagement" ->
            audit_engagement(args.engagements, args.with_evidence)

\* the characters of a registry name, for the comparison of str
Spell(name) ==
    CASE name = "retail_small" ->
            <<"r", "e", "t", "a", "i", "l", "_", "s", "m", "a", "l", "l">>
      [] name = "banking_medium" ->
            <<"b", "a", "n", "k", "i", "n", "g", "_", "m", "e", "d", "i",
              "u", "m">>
      [] name = "manufacturing_large" ->
            <<"m", "a", "n", "u", "f", "a", "c", "t", "u", "r", "i", "n",
              "g", "_", "l", "a", "r", "g", "e">>
      [] name = "banking_aml" ->
            <<"b", "a", "n", "k", "i", "n", "g", "_", "a", "m", "l">>
      [] name = "ml_training" ->
            <<"m", "l", "_", "t", "r", "a", "i", "n", "i", "n", "g">>
      [] name = "audit_engagement" ->
            <<"a", "u", "d", "i", "t", "_", "e", "n", "g", "a", "g", "e",
              "m", "e", "n", "t">>

\* the characters of the names in code point order
CodePoints ==
    <<"_", "a", "b", "c", "d", "e", "f", "g", "h", "i", "j", "k", "l", "m",
      "n", "o", "p", "q", "r", "s", "t", "u", "v", "w", "x", "y", "z">>

ord(ch) == CHOOSE r \in 1..Len(CodePoints) : CodePoints[r] = ch

\* a < b on two str, given by their characters
RECURSIVE StrLess(_, _)
StrLess(a, b) ==
    IF a = <<>> THEN b # <<>>
    ELSE IF b = <<>> THEN FALSE
    ELSE IF Head(a) = Head(b) THEN StrLess(Tail(a), Tail(b))
    ELSE ord(Head(a)) < ord(Head(b))

RECURSIVE InsertSorted(_, _)
InsertSorted(x, names) ==
    IF names = <<>> THEN <<x>>
    ELSE IF StrLess(Spell(x), Spell(Head(names))) THEN <<x>> \o names
    ELSE <<Head(names)>> \o InsertSorted(x, Tail(names))

RECURSIVE sorted(_)
sorted(names) ==
    IF names = <<>> THEN <<>>
    ELSE InsertSorted(Head(names), sorted(Tail(names)))

\* blueprints.list()
list == sorted(_REGISTRY)

----------------------------------------------------------------------------
(* The callers' inputs: typed sections given to Config(...), mappings given  *)
(* to Config.from_dict, keyword arguments given to Config.override.          *)

Company(code, name) ==
    New("CompanyConfig", [code |-> S(code), name |-> S(name)])

RelationshipType(cardinality) ==
    New("RelationshipTypeConfig",
        [name |-> S("owns"), source_type |-> S("company"),
         target_type |-> S("account"), cardinality |-> cardinality])

CardinalityRule(min_count, max_count) ==
    New("CardinalityRule",
        [rule_type |-> S("one_to_many"), min_count |-> min_count,
         max_count |-> max_count])

\* the values tried for each argument of Config(...)
Samples(attr) ==
    CASE attr = "global_settings" ->
            {New("GlobalSettings", EmptyDict),
             New("GlobalSettings",
                 [industry |-> S("Retail"), start_date |-> S("2024-01-01"),
                  period_months |-> N(12)]),
             New("GlobalSettings",
                 [industry |-> S("Bogus"), period_months |-> N(0)]),
             New("GlobalSettings", [period_months |-> N(121)]),
             New("GlobalSettings", [period_months |-> N(1)]),
             New("GlobalSettings", [period_months |-> N(120)]),
             New("GlobalSettings", [period_months |-> Fl(12500)])}
      [] attr = "companies" ->
            {L(<<>>),
             L(<<Company("C001", "Test Company")>>),
             L(<<Company("", "No Code"), Company("C002", "")>>),
             L(<<Company("C001", "One"), Company("C001", "Two")>>)}
      [] attr = "chart_of_accounts" ->
            {New("ChartOfAccountsSettings", EmptyDict),
             New("ChartOfAccountsSettings", [complexity |-> S("MEDIUM")]),
             New("ChartOfAccountsSettings", [complexity |-> S("huge")])}
      [] attr = "transactions" ->
            {New("TransactionSettings", EmptyDict),
             New("TransactionSettings", [count |-> N(5)]),
             New("TransactionSettings", [anomaly_rate |-> N(2)])}
      [] attr = "output" ->
            {New("OutputSettings", EmptyDict),
             New("OutputSettings",
                 [output_directory |-> S("out"),
                  formats |-> L(<<S("csv")>>)]),
             New("OutputSettings",
                 [compression_enabled |-> B(TRUE),
                  compression_level |-> N(3)]),
             New("OutputSettings", [compression_level |-> N(6)])}
      [] attr = "fraud" ->
            {New("FraudSettings", EmptyDict),
             New("FraudSettings", [enabled |-> B(TRUE)]),
             New("FraudSettings", [enabled |-> B(FALSE), rate |-> Fl(20)]),
             New("FraudSettings", [rate |-> N(2)])}
      [] attr = "banking" ->
            {New("BankingSettings", EmptyDict),
             New("BankingSettings",
                 [enabled |-> B(TRUE), retail_customers |-> N(100)])}
      [] attr = "scenario" ->
            {New("ScenarioSettings", EmptyDict),
             New("ScenarioSettings",
                 [tags |-> L(<<S("ml")>>), ml_training |-> B(TRUE)])}
      [] attr = "temporal" ->
            {New("TemporalDriftSettings", EmptyDict),
             New("TemporalDriftSettings",
                 [enabled |-> B(TRUE), drift_start_period |-> N(3)])}
      [] attr = "data_quality" ->
            {New("DataQualitySettings", EmptyDict),
             New("DataQualitySettings",
                 [enabled |-> B(TRUE), missing_rate |-> Fl(100)])}
      [] attr = "graph_export" ->
            {New("GraphExportSettings", EmptyDict),
             New("GraphExportSettings",
                 [enabled |-> B(TRUE),
                  formats |-> L(<<S("pytorch_geometric")>>)])}
      [] attr = "audit" ->
            {New("AuditSettings", EmptyDict),
             New("AuditSettings", [enabled |-> B(TRUE)])}
      [] attr = "streaming" ->
            {New("StreamingSettings", EmptyDict),
             New("StreamingSettings", [enabled |-> B(TRUE)])}
      [] attr = "rate_limit" ->
            {New("RateLimitSettings", EmptyDict),
             New("RateLimitSettings", [enabled |-> B(TRUE)])}
      [] attr = "temporal_attributes" ->
            {New("TemporalAttributeSettings", EmptyDict),
             New("TemporalAttributeSettings",
                 [enabled |-> B(TRUE),
                  valid_time |-> New("ValidTimeSettings", EmptyDict)])}
      [] attr = "relationships" ->
            {New("RelationshipSettings", EmptyDict),
             New("RelationshipSettings",
                 [enabled |-> B(TRUE),
                  relationship_types |->
                      L(<<RelationshipType(CardinalityRule(N(1), N(5)))>>)]),
             New("RelationshipSettings",
                 [enabled |-> B(TRUE),
                  relationship_types |->
                      L(<<RelationshipType(CardinalityRule(N(0), None)),
                          RelationshipType(None)>>)]),
             New("RelationshipSettings",
                 [relationship_types |->
                      L(<<RelationshipType(CardinalityRule(N(-1), N(2)))>>)])}
      [] attr = "extra" ->
            {"custom" :> D([level |-> N(1)]),
             "output" :> D([compression |-> S("gzip")]),
             "fraud" :> D([enabled |-> B(FALSE)]),
             "transactions" :> D([anomaly_rate |-> N(2)])}

Attrs == DOMAIN ConfigDefaults

\* the keyword-argument dicts that give exactly the arguments of A
RECURSIVE KwargsOver(_)
KwargsOver(A) ==
    IF A = {} THEN {EmptyDict}
    ELSE LET a == CHOOSE x \in A : TRUE
         IN {(a :> v) @@ kw : v \in Samples(a), kw \in KwargsOver(A \ {a})}

ArgSets == {A \in SUBSET Attrs : Cardinality(A) <= MaxSections}

\* the counts tried in a legacy companies object
Counts == (0..MaxCount) \cup {BigCount}

\* the legacy companies objects: each of count, industry, complexity may be
\* left out
LegacyObjects ==
    {D(c @@ i @@ x) :
        c \in {EmptyDict} \cup {"count" :> N(n) : n \in Counts},
        i \in {EmptyDict, "industry" :> S("technology")},
        x \in {EmptyDict, "complexity" :> S("large")}}

LegacyMappings ==
    {("companies" :> lo) @@ g @@ coa @@ e :
        lo \in LegacyObjects,
        g \in {EmptyDict, "global" :> D(EmptyDict),
               "global" :> D([industry |-> S("manufacturing")]),
               "global" :> D([industry |-> S("")]),
               "global" :> D([industry |-> None, seed |-> N(7)]),
               "global" :> D([period_months |-> N(12), seed |-> N(42)]),
               "global" :>
                  D([start_date |-> S("2024-01-01"), period_months |-> N(6),
                     seed |-> N(1), group_currency |-> S("EUR"),
                     parallel |-> B(TRUE), worker_threads |-> N(2),
                     memory_limit_mb |-> N(5)])},
        coa \in {EmptyDict, "chart_of_accounts" :> D(EmptyDict),
                 "chart_of_accounts" :> D([complexity |-> S("small")])},
        e \in {EmptyDict, "custom" :> N(1) @@ "notes" :> S("kept")}}

\* mappings in the current shape
CurrentMappings ==
    {EmptyDict,
     "global" :> D([industry |-> S("retail")])
        @@ "companies" :> L(<<D([code |-> S("C001"), name |-> S("One")])>>),
     "companies" :> L(<<>>) @@ "fraud" :> D([rate |-> Fl(50)]),
     "companies" :>
        L(<<D([code |-> S("C001"), name |-> S("One"), currency |-> None])>>),
     "fraud" :> D([enabled |-> B(TRUE), future_field |-> N(1)])
        @@ "plugin" :> D([global |-> S("inner")]),
     "output" :> D([compression |-> D([enabled |-> B(TRUE)])])
        @@ "Global" :> D([industry |-> S("retail")])}

\* mappings of a newer schema generation: a field key the section does not
\* know, in each section, in a companies entry and in each nested
\* sub-section
ForwardMappings ==
    {k :> D([future_field |-> N(1)]) :
        k \in known_keys \ {"companies", "relationships"}}
    \cup
    {"global" :> D([industry |-> S("retail"), future_field |-> N(1)]),
     "companies" :>
        L(<<D([code |-> S("C001"), name |-> S("One"),
               future_field |-> N(1)])>>),
     "temporal_attributes" :>
        D([enabled |-> B(TRUE),
           valid_time |-> D([avg_validity_days |-> N(30),
                             future_field |-> N(1)])]),
     "relationships" :>
        D([enabled |-> B(TRUE), future_field |-> N(1),
           relationship_types |->
               L(<<D([name |-> S("owns"), source_type |-> S("company"),
                      target_type |-> S("account"), future_field |-> N(1),
                      cardinality |->
                          D([rule_type |-> S("one_to_one"), min |-> N(1),
                             future_field |-> N(1)])])>>)])}

\* values that are neither a mapping nor a sequence of mappings
Scalars == {N(5), S("all")}

\* mappings with a scalar under one known key, and under an unknown key
ShapeMappings ==
    {k :> v : k \in known_keys \cup {"custom"}, v \in Scalars}
    \cup {"global" :> L(<<>>),
          "companies" :> D([count |-> S("3")]),
          "companies" :> L(<<D([code |-> S("C001")])>>)}

Mappings ==
    LegacyMappings \cup CurrentMappings \cup ForwardMappings
        \cup ShapeMappings

\* keyword arguments given to override
Overrides ==
    {"fraud" :> D([rate |-> Fl(50)]),
     "fraud" :> D([enabled |-> B(TRUE), rate |-> Fl(50)]),
     "fraud" :> New("FraudSettings", [rate |-> Fl(50)]),
     "output" :> D([formats |-> L(<<S("json")>>)]),
     "output" :> D([compression |-> D([enabled |-> B(TRUE)])]),
     "transactions" :> D([anomaly_rate |-> Fl(50)]),
     "global" :> D([period_months |-> N(6)]),
     "companies" :> L(<<D([code |-> S("N001"), name |-> S("New")])>>),
     "relationships" :>
        D([relationship_types |->
              L(<<D([name |-> S("pays"), source_type |-> S("company"),
                     target_type |-> S("vendor")])>>)]),
     "custom" :> N(7)}

\* transaction volume hints, one or two for each volume preset
TransactionHints == {5000, 10000, 12000, 100000, 2000000, 20000000,
                     200000000}

\* the arguments the callers give to a factory, its defaults among them
BlueprintArgs(name) ==
    {DefaultArgs(name)}
    \cup
    (CASE name \in {"retail_small", "banking_medium", "manufacturing_large"}
            -> {[companies |-> n, transactions |-> t] :
                    n \in Counts, t \in TransactionHints}
       [] name = "banking_aml" ->
            {[customers |-> c, typologies |-> t] :
                    c \in {0, 10, 1000}, t \in BOOLEAN}
       [] name = "ml_training" ->
            {[industry |-> i, anomaly_ratio |-> Fl(50),
              with_data_quality |-> q] :
                    i \in {"manufacturing", "retail"}, q \in BOOLEAN}
       [] name = "audit_engagement" ->
            {[engagements |-> e, with_evidence |-> w] :
                    e \in {1, 5}, w \in BOOLEAN})

----------------------------------------------------------------------------
(* Objects. A dict is an object: two names may denote the same dict, and a  *)
(* write through one is seen through the other. The dict objects are kept   *)
(* in a heap, a function from addresses to the entries of the dict; an      *)
(* entry that is itself a dict is a reference to its address. An address is *)
(* the path of keys that leads to the object from a root. Lists, strings,   *)
(* numbers and frozen dataclass instances stay values: no code writes to    *)
(* them.                                                                    *)

Ref(a) == [kind |-> "ref", a |-> a]
IsRef(v) == v.kind = "ref"

\* the roots: the extra bag of the caller's Config, the overrides dict of
\* an override call, and the dicts the functions create
ExtraAddr == <<"extra">>
OverridesAddr == <<"overrides">>
PayloadAddr == <<"payload">>
MergedAddr == <<"merged">>
ResultExtraAddr == <<"result.extra">>

NoObjects == [a \in {} |-> EmptyDict]

\* the mapping found in d under the keys of rel, one after the other
RECURSIVE ValueAt(_, _)
ValueAt(d, rel) ==
    IF rel = <<>> THEN d ELSE ValueAt(d[Head(rel)].d, Tail(rel))

\* the addresses of the dicts of a mapping d whose own address is a
RECURSIVE DictPaths(_, _)
DictPaths(a, d) ==
    {a} \cup UNION {DictPaths(Append(a, k), d[k].d) :
                        k \in {x \in DOMAIN d : IsDict(d[x])}}

\* the objects of a mapping built at address a from the value d, every
\* nested dict an object of its own
Alloc(a, d) ==
    [p \in DictPaths(a, d) |->
        LET m == ValueAt(d, SubSeq(p, Len(a) + 1, Len(p)))
        IN [k \in DOMAIN m |->
               IF IsDict(m[k]) THEN Ref(Append(p, k)) ELSE m[k]]]

\* the value of the dict at address a
RECURSIVE Load(_, _)
Load(heap, a) ==
    [k \in DOMAIN heap[a] |->
        IF IsRef(heap[a][k]) THEN D(Load(heap, heap[a][k].a))
        ELSE heap[a][k]]

\* the objects of writes, and those of heap that writes leaves alone
Written(writes, heap) == writes @@ heap

\* Config.to_dict on objects: payload and the section mappings are new
\* dicts; payload.update(self.extra) stores the entries of the extra bag,
\* so a dict of the extra bag and the payload's entry are one object
ToDictWrites(heap, c, extra, at) ==
    LET fresh == Alloc(at, SectionsPayload(c))
    IN [fresh EXCEPT ![at] = UpdateWith(fresh[at], heap[extra])]

\* merged = base: the same object under a second name
DictCopy_Alias(src, fresh) == src

\* merged = dict(base): a new object with the entries of base
DictCopy(src, fresh) == fresh

\* _deep_merge on objects: the dicts it writes, and the address of merged
RECURSIVE DeepMergeWrites(_, _, _, _)
DeepMergeWrites(heap, base, overrides, at) ==
    LET merged == DictCopy(base, at)
        keys == DOMAIN heap[base] \cup DOMAIN heap[overrides]
        Recurses(key) ==
            /\ key \in DOMAIN heap[overrides]
            /\ IsRef(heap[overrides][key])
            /\ key \in DOMAIN heap[base]
            /\ IsRef(heap[base][key])
        Converts(key) ==
            /\ key \in DOMAIN heap[overrides]
            /\ _is_dataclass_instance(heap[overrides][key])
        Sub(key) ==
            DeepMergeWrites(heap, heap[base][key].a,
                            heap[overrides][key].a, Append(at, key))
        Nested(key) ==
            IF Recurses(key) THEN Sub(key).writes
            ELSE IF Converts(key)
            THEN Alloc(Append(at, key),
                       _strip_none(heap[overrides][key].f))
            ELSE NoObjects
        entries ==
            [key \in keys |->
                IF key \notin DOMAIN heap[overrides] THEN heap[base][key]
                ELSE IF Recurses(key) THEN Ref(Sub(key).addr)
                ELSE IF Converts(key) THEN Ref(Append(at, key))
                ELSE heap[overrides][key]]
        below == UNION {DOMAIN Nested(key) : key \in keys}
    IN [addr |-> merged,
        writes |->
            (merged :> entries)
            @@ [a \in below |->
                   Nested(CHOOSE key \in keys : a \in DOMAIN Nested(key))[a]]]

\* the caller's tree as it stands in a heap
TreeIn(heap, c) == [c EXCEPT !.extra = Load(heap, ExtraAddr)]

\* the heap of a caller that holds the tree c
HeapOf(c) == Alloc(ExtraAddr, c.extra)

\* F of the value v, v worked out once however often F reads it
With(v, F(_)) == CHOOSE r \in {F(x) : x \in {v}} : TRUE

\* c.to_dict(): the payload returned and the tree as the call leaves it
ToDictOnObjects(c) ==
    With(HeapOf(c), LAMBDA h0 :
    With(Written(ToDictWrites(h0, c, ExtraAddr, PayloadAddr), h0),
         LAMBDA heap :
    [payload |-> Load(heap, PayloadAddr),
     cfg |-> TreeIn(heap, c),
     heap |-> heap]))

\* c.override(overrides): current = self.to_dict(); merged =
\* _deep_merge(current, overrides); Config.from_dict(merged), whose extra
\* bag is a new dict holding the entries of merged under unknown keys
OverrideOnObjects(c, overrides) ==
    With(HeapOf(c) @@ Alloc(OverridesAddr, overrides), LAMBDA h0 :
    With(Written(ToDictWrites(h0, c, ExtraAddr, PayloadAddr), h0),
         LAMBDA h1 :
    With(DeepMergeWrites(h1, PayloadAddr, OverridesAddr, MergedAddr),
         LAMBDA dm :
    With(Written(dm.writes, h1), LAMBDA h2 :
    With(Written(ResultExtraAddr :> ExtraOf(h2[dm.addr]), h2), LAMBDA h3 :
    [merged |-> Load(h3, dm.addr),
     extra |-> Load(h3, ResultExtraAddr),
     cfg |-> TreeIn(h3, c),
     arg |-> Load(h3, OverridesAddr),
     heap |-> h3])))))

----------------------------------------------------------------------------
(* The client: DataSynth.generate of client.py, on the dict objects. What  *)
(* the call does outside the process (a directory made, the config file    *)
(* written, the engine run, the tables read back) is recorded as a step of *)
(* its trace; what is installed and what the engine does is the caller's   *)
(* environment.                                                            *)

OutputSpecDefaults ==
    [format |-> S("csv"), sink |-> S("temp_dir"), path |-> None,
     compression |-> None, table_format |-> S("pandas")]

OutputSpec(kwargs) == Obj("OutputSpec", kwargs @@ OutputSpecDefaults)

\* None gives OutputSpec(), an OutputSpec is kept, a dict gives its keys
_coerce_output_spec(value) ==
    IF value = None THEN OutputSpec(EmptyDict)
    ELSE IF value.kind = "obj" THEN value
    ELSE OutputSpec(value.d)

\* format_map.get(output_spec.format, "csv")
cli_format(format) ==
    CASE format = S("csv") -> S("csv")
      [] format = S("jsonl") -> S("json")
      [] format = S("parquet") -> S("parquet")
      [] OTHER -> S("csv")

\* the steps of a trace that reach outside the process
ExternalSteps == {"mkdtemp", "write_config", "run_cli", "load_tables"}

\* the address of the payload _write_config builds
ConfigFileAddr == <<"config_file">>

\* the directory tempfile.mkdtemp returns
TempDir == S("/tmp/datasynth_output_")

\* the sink/path check of generate: sink='path' needs a path
PathMissing(output_spec) ==
    output_spec.f.sink = S("path") /\ ~Truthy(output_spec.f.path)

\* _resolve_output_dir: the path given, or a new temporary directory
_resolve_output_dir(output) ==
    IF output.f.sink = S("path") /\ Truthy(output.f.path)
    THEN [raised |-> "none", dir |-> output.f.path, steps |-> <<>>]
    ELSE IF output.f.sink \in {S("temp_dir"), S("memory")}
    THEN [raised |-> "none", dir |-> TempDir, steps |-> <<"mkdtemp">>]
    ELSE [raised |-> "ValueError", dir |-> None, steps |-> <<>>]

\* if "output" not in payload: payload["output"] = {}
WithOutputDict(heap, at) ==
    IF "output" \in DOMAIN heap[at] THEN heap
    ELSE Written((at :> (("output" :> Ref(Append(at, "output")))
                             @@ heap[at]))
                 @@ (Append(at, "output") :> EmptyDict), heap)

\* _write_config: payload = config.to_dict(), an "output" dict added when
\* the payload has none, output_directory and formats stored into
\* payload["output"], and the payload dumped to a new file
_write_config(heap, config, extra, output_dir, output_spec, env) ==
    IF ~env.yaml
    THEN [raised |-> "MissingDependencyError", heap |-> heap,
          steps |-> <<>>, written |-> None]
    ELSE
    With(Written(ToDictWrites(heap, config, extra, ConfigFileAddr), heap),
         LAMBDA h1 :
    With(WithOutputDict(h1, ConfigFileAddr), LAMBDA h2 :
    With(h2[ConfigFileAddr]["output"], LAMBDA target :
    IF ~IsRef(target)
    THEN [raised |-> "TypeError", heap |-> h2, steps |-> <<>>,
          written |-> None]
    ELSE
    With([h2 EXCEPT ![target.a] =
              ("output_directory" :> output_dir)
              @@ ("formats" :> L(<<cli_format(output_spec.f.format)>>))
              @@ @],
         LAMBDA h3 :
    [raised |-> "none", heap |-> h3, steps |-> <<"write_config">>,
     written |-> D(Load(h3, ConfigFileAddr))]))))

\* _run_cli: subprocess.run of the engine; a missing binary and a failed
\* run both raise RuntimeError
_run_cli(env) ==
    [raised |-> IF env.engine = "ok" THEN "none" ELSE "RuntimeError",
     steps |-> <<"run_cli">>]

\* _load_tables: pandas reads the files of the output directory
_load_tables(output_spec, env) ==
    IF output_spec.f.table_format # S("pandas")
    THEN [raised |-> "ValueError", steps |-> <<>>]
    ELSE IF ~env.pandas
    THEN [raised |-> "MissingDependencyError", steps |-> <<>>]
    ELSE IF output_spec.f.format
                \notin {S("csv"), S("jsonl"), S("parquet")}
    THEN [raised |-> "ValueError", steps |-> <<>>]
    ELSE [raised |-> "none", steps |-> <<"load_tables">>]

\* what a call of generate leaves: the exception raised, the steps taken,
\* the payload written, the result returned, and the caller's tree
Outcome(exception, steps, written, returned, heap, c) ==
    [raised |-> exception, trace |-> steps, written |-> written,
     result |-> returned, cfg |-> TreeIn(heap, c)]

\* generate, from the sink/path check on; config is the tree to send (the
\* caller's, or the one override returned), its extra bag at address extra
GenerateFrom(heap, c, config, extra, output_spec, env, steps) ==
    IF PathMissing(output_spec)
    THEN Outcome("ValueError", steps, None, None, heap, c)
    ELSE
    LET checked == Append(steps, "path_checked")
        dir == _resolve_output_dir(output_spec)
    IN IF dir.raised # "none"
       THEN Outcome(dir.raised, checked, None, None, heap, c)
       ELSE
    With(_write_config(heap, config, extra, dir.dir, output_spec, env),
         LAMBDA file :
    IF file.raised # "none"
    THEN Outcome(file.raised, checked \o dir.steps, None, None,
                 file.heap, c)
    ELSE
    LET wrote == checked \o dir.steps \o file.steps
        run == _run_cli(env)
        ran == wrote \o run.steps
    IN IF run.raised # "none"
       THEN Outcome(run.raised, ran, file.written, None, file.heap, c)
       ELSE IF output_spec.f.sink = S("memory")
       THEN LET tables == _load_tables(output_spec, env)
            IN Outcome(tables.raised, ran \o tables.steps, file.written,
                       IF tables.raised = "none"
                       THEN [output_dir |-> None, tables |-> S("tables")]
                       ELSE None,
                       file.heap, c)
       ELSE Outcome("none", ran, file.written,
                    [output_dir |-> dir.dir, tables |-> None],
                    file.heap, c))

\* DataSynth.generate(config, output, seed): validate, coerce the output
\* spec, override the seed when one is given, then the steps above
generate(c, output, seed, env) ==
    IF ConfigValidate(c).raised # "none"
    THEN [raised |-> ConfigValidate(c).raised, trace |-> <<>>,
          written |-> None, result |-> None, cfg |-> c]
    ELSE
    LET output_spec == _coerce_output_spec(output)
        steps == <<"validated">>
    IN IF seed = None
       THEN With(HeapOf(c), LAMBDA heap :
            GenerateFrom(heap, c, c, ExtraAddr, output_spec, env, steps))
       ELSE
    With(OverrideOnObjects(c, "global" :> D([seed |-> seed])),
         LAMBDA seeded :
    IF FromDictRaises(seeded.merged) # "none"
    THEN Outcome(FromDictRaises(seeded.merged), steps, None, None,
                 seeded.heap, c)
    ELSE GenerateFrom(seeded.heap, c, from_dict(seeded.merged),
                      ResultExtraAddr, output_spec, env, steps))

----------------------------------------------------------------------------
(* The calling script: build a Config, then apply one operation to it *)

Nothing == [kind |-> "nothing"]

Init ==
    /\ pc = "start"
    /\ origin = "none"
    /\ data = Nothing
    /\ cfg = Nothing
    /\ op = "none"
    /\ arg = Nothing
    /\ payload = Nothing
    /\ result = Nothing
    /\ errors = <<>>
    /\ raised = "none"
    /\ blueprint = Nothing
    /\ after = Nothing
    /\ trace = <<>>

\* cfg = Config(**kw)
Construct ==
    /\ pc = "start"
    /\ \E A \in ArgSets : \E kw \in KwargsOver(A) : cfg' = NewConfig(kw)
    /\ origin' = "direct"
    /\ pc' = "built"
    /\ UNCHANGED <<data, op, arg, payload, result, errors, raised, blueprint,
                   after, trace>>

\* cfg = blueprints.get(name)(**args)
CallBlueprint ==
    /\ pc = "start"
    /\ \E k \in 1..Len(list) : \E a \in BlueprintArgs(list[k]) :
          /\ blueprint' = [name |-> list[k], args |-> a]
          /\ cfg' = get(list[k], a)
    /\ origin' = "blueprint"
    /\ pc' = "built"
    /\ UNCHANGED <<data, op, arg, payload, result, errors, raised, after,
                   trace>>

\* cfg = Config.from_dict(m), which returns a Config or raises
CallFromDict ==
    /\ pc = "start"
    /\ \E m \in Mappings :
          /\ data' = m
          /\ raised' = FromDictRaises(m)
          /\ IF FromDictRaises(m) = "none"
             THEN cfg' = from_dict(m) /\ origin' = "from_dict"
                     /\ pc' = "built"
             ELSE cfg' = cfg /\ origin' = origin /\ pc' = "raised"
    /\ UNCHANGED <<op, arg, payload, result, errors, blueprint, after,
                   trace>>

\* payload = cfg.to_dict()
CallToDict ==
    /\ pc = "built"
    /\ payload' = to_dict(cfg)
    /\ after' = [cfg |-> ToDictOnObjects(cfg).cfg, arg |-> Nothing]
    /\ op' = "to_dict"
    /\ pc' = "done"
    /\ UNCHANGED <<origin, data, cfg, arg, result, errors, raised, blueprint,
                   trace>>

\* result = Config.from_dict(payload), after payload = cfg.to_dict()
CallFromDictOfPayload ==
    /\ pc = "done"
    /\ op = "to_dict"
    /\ result' = from_dict(payload)
    /\ op' = "round_trip"
    /\ UNCHANGED <<pc, origin, data, cfg, arg, payload, errors, raised,
                   blueprint, after, trace>>

\* result = cfg.override(**ov), ov also being cfg's own canonical mapping
CallOverride ==
    /\ pc = "built"
    /\ \E ov \in Overrides \cup {to_dict(cfg)} :
          /\ arg' = ov
          /\ result' = override(cfg, ov)
          /\ \E left \in {OverrideOnObjects(cfg, ov)} :
                after' = [cfg |-> left.cfg, arg |-> left.arg]
    /\ op' = "override"
    /\ pc' = "done"
    /\ UNCHANGED <<origin, data, cfg, payload, errors, raised, blueprint,
                   trace>>

\* errors = validate_config(cfg)
CallValidate ==
    /\ pc = "built"
    /\ errors' = validate_config(cfg)
    /\ after' = [cfg |-> ToDictOnObjects(cfg).cfg, arg |-> Nothing]
    /\ op' = "validate"
    /\ pc' = "done"
    /\ UNCHANGED <<origin, data, cfg, arg, payload, result, raised, blueprint,
                   trace>>

\* cfg.validate(), which returns None or raises ConfigValidationError
CallConfigValidate ==
    /\ pc = "built"
    /\ raised' = ConfigValidate(cfg).raised
    /\ errors' = ConfigValidate(cfg).errors
    /\ after' = [cfg |-> ToDictOnObjects(cfg).cfg, arg |-> Nothing]
    /\ op' = "cfg_validate"
    /\ pc' = "done"
    /\ UNCHANGED <<origin, data, cfg, arg, payload, result, blueprint,
                   trace>>

\* result = blueprints.with_graph_export(cfg, formats)
CallWithGraphExport ==
    /\ pc = "built"
    /\ \E formats \in {None, L(<<S("neo4j"), S("dgl")>>)} :
          /\ arg' = formats
          /\ result' = with_graph_export(cfg, formats)
    /\ op' = "with_graph_export"
    /\ pc' = "done"
    /\ UNCHANGED <<origin, data, cfg, payload, errors, raised, blueprint,
                   after, trace>>

\* the environments of a call: what is installed, and what the engine does
Installed == [yaml |-> TRUE, engine |-> "ok", pandas |-> TRUE]
NoYaml == [Installed EXCEPT !.yaml = FALSE]
NoPandas == [Installed EXCEPT !.pandas = FALSE]
NoEngine == [Installed EXCEPT !.engine = "missing"]
EngineFails == [Installed EXCEPT !.engine = "failed"]

ToPath == OutputSpec([sink |-> S("path"), path |-> S("out"),
                      format |-> S("jsonl")])
ToMemory == D([sink |-> S("memory"), format |-> S("parquet")])

\* the calls of generate: the output argument (none, an OutputSpec, a
\* dict), the seed, and the environment of the call
GenerateCalls ==
    {[output |-> None, seed |-> None, env |-> Installed],
     [output |-> None, seed |-> N(42), env |-> Installed],
     [output |-> None, seed |-> None, env |-> NoYaml],
     [output |-> OutputSpec([sink |-> S("path")]), seed |-> None,
      env |-> Installed],
     [output |-> OutputSpec([sink |-> S("s3")]), seed |-> None,
      env |-> Installed],
     [output |-> ToPath, seed |-> None, env |-> EngineFails],
     [output |-> ToPath, seed |-> N(42), env |-> NoEngine],
     [output |-> ToPath, seed |-> None, env |-> Installed],
     [output |-> ToMemory, seed |-> None, env |-> Installed],
     [output |-> ToMemory, seed |-> N(42), env |-> NoPandas]}

\* result = DataSynth().generate(cfg, output, seed)
CallGenerate ==
    /\ pc = "built"
    /\ \E call \in GenerateCalls :
       \E left \in {generate(cfg, call.output, call.seed, call.env)} :
             /\ arg' = [output |-> call.output, seed |-> call.seed]
             /\ raised' = left.raised
             /\ trace' = left.trace
             /\ payload' = left.written
             /\ result' = left.result
             /\ after' = [cfg |-> left.cfg, arg |-> Nothing]
    /\ op' = "generate"
    /\ pc' = "done"
    /\ UNCHANGED <<origin, data, cfg, errors, blueprint>>

Next ==
    \/ Construct
    \/ CallFromDict
    \/ CallToDict
    \/ CallFromDictOfPayload
    \/ CallOverride
    \/ CallValidate
    \/ CallConfigValidate
    \/ CallBlueprint
    \/ CallWithGraphExport
    \/ CallGenerate

Spec == Init /\ [][Next]_vars

----------------------------------------------------------------------------
(* Vocabulary of the properties *)

SectionAttrs == Attrs \ {"extra"}

\* the canonical key of a Config attribute
KeyOf(attr) == IF attr = "global_settings" THEN "global" ELSE attr

IsSet(v) == v # None

\* a section left as its class constructs it with no argument
IsDefaultConstructed(sec) ==
    sec.kind = "obj" /\ sec = New(sec.cls, EmptyDict)

\* a tree whose sections were each given at least one explicit argument and
\* whose extra bag names no known section
ExplicitOnly(c) ==
    /\ \A a \in SectionAttrs : IsSet(c[a]) => ~IsDefaultConstructed(c[a])
    /\ DOMAIN c.extra \cap known_keys = {}

----------------------------------------------------------------------------
(* C1: round trip. For a directly built tree holding only explicitly set    *)
(* fields, from_dict(to_dict(tree)) is value-equal to tree.                 *)
C1_RoundTrip ==
    (op = "round_trip" /\ origin = "direct" /\ ExplicitOnly(cfg))
        => result = cfg

(* C2: merge idempotence. Overriding a tree with its own canonical mapping  *)
(* returns a tree value-equal to it.                                        *)
C2_MergeIdempotence ==
    (op = "override" /\ origin = "direct" /\ ExplicitOnly(cfg)
        /\ arg = to_dict(cfg))
        => result = cfg

(* C3: sparse output. A Config holding one default-constructed section and  *)
(* nothing else has no key for that section in its canonical mapping.       *)
C3_SparseOutput ==
    op = "to_dict" =>
        \A a \in SectionAttrs :
            (/\ IsSet(cfg[a])
             /\ IsDefaultConstructed(cfg[a])
             /\ cfg = NewConfig(a :> cfg[a]))
                => KeyOf(a) \notin DOMAIN payload

(* C4: validation completeness. validate_config returns one violation for  *)
(* every rule of the catalog that the tree breaks: as many violations as    *)
(* broken rules, the rules being read off the typed tree.                   *)
FieldOf(sec, f) == IF sec = None THEN None ELSE sec.f[f]

OutOfRange(v, lo, hi) == IsSet(v) /\ (NumLess(v, lo) \/ NumGreater(v, hi))

NotAmong(v, names) == IsSet(v) /\ Lower(v.s) \notin names

Count(cond) == IF cond THEN 1 ELSE 0

BrokenRules(c) ==
    Count(OutOfRange(FieldOf(c.global_settings, "period_months"), 1, 120))
    + Count(NotAmong(FieldOf(c.global_settings, "industry"),
                     valid_industries))
    + Count(c.companies = None \/ Len(c.companies.items) = 0)
    + (IF c.companies = None THEN 0
       ELSE Cardinality({i \in 1..Len(c.companies.items) :
                            c.companies.items[i].f.code = S("")})
            + Cardinality({i \in 1..Len(c.companies.items) :
                              c.companies.items[i].f.name = S("")}))
    + Count(NotAmong(FieldOf(c.chart_of_accounts, "complexity"),
                     {"small", "medium", "large"}))
    + Count(OutOfRange(FieldOf(c.fraud, "rate"), 0, 1))
    + Count(OutOfRange(FieldOf(c.transactions, "anomaly_rate"), 0, 1))

C4_ValidationCompleteness ==
    (op = "validate" /\ origin = "direct" /\ cfg.extra = EmptyDict)
        => Len(errors) = BrokenRules(cfg)

(* C5: override non-destructiveness. When override is given a partial       *)
(* mapping for one section, the fields of that section set in the base and  *)
(* not named in the override keep their base values, and every other        *)
(* section is unchanged.                                                    *)
C5_OverrideNonDestructive ==
    (op = "override" /\ origin = "direct" /\ ExplicitOnly(cfg)
        /\ cfg.extra = EmptyDict)
        => \A a \in SectionAttrs :
              (DOMAIN arg = {KeyOf(a)} /\ IsDict(arg[KeyOf(a)]))
                 => /\ \A b \in SectionAttrs \ {a} : result[b] = cfg[b]
                    /\ (IsSet(cfg[a]) /\ cfg[a].kind = "obj")
                          => \A f \in DOMAIN cfg[a].f :
                                (IsSet(cfg[a].f[f])
                                   /\ f \notin DOMAIN arg[KeyOf(a)].d)
                                   => /\ IsSet(result[a])
                                      /\ result[a].f[f] = cfg[a].f[f]

(* C6: an override value that is a typed section instance is merged field   *)
(* by field: the fields it leaves unset do not erase the fields set in the  *)
(* base section.                                                            *)
C6_TypedOverrideKeepsBase ==
    (op = "override" /\ origin = "direct"
        /\ DOMAIN cfg.extra \cap known_keys = {})
        => \A a \in SectionAttrs :
              (/\ KeyOf(a) \in DOMAIN arg
               /\ arg[KeyOf(a)].kind = "obj"
               /\ IsSet(cfg[a])
               /\ KeyOf(a) \in DOMAIN to_dict(cfg))
                 => \A f \in DOMAIN cfg[a].f :
                       (IsSet(cfg[a].f[f]) /\ arg[KeyOf(a)].f[f] = None)
                          => /\ IsSet(result[a])
                             /\ result[a].f[f] = cfg[a].f[f]

(* C9: extra-bag keys never overwrite a known section key in to_dict: when  *)
(* a section is set and the extra bag has an entry under the section's key, *)
(* the canonical mapping holds the section's projection under that key.     *)
C9_ExtraNeverOverwrites ==
    (op = "to_dict" /\ origin = "direct")
        => \A a \in SectionAttrs :
              (/\ IsSet(cfg[a])
               /\ KeyOf(a) \in DOMAIN cfg.extra
               /\ KeyOf(a) \in DOMAIN SectionsPayload(cfg))
                 => payload[KeyOf(a)] = SectionsPayload(cfg)[KeyOf(a)]

(* C7: legacy expansion. A legacy companies object with count = n yields    *)
(* exactly n entities, in order, the i-th (from 1) with code "C" followed   *)
(* by i zero-padded to three digits and name "Company i"; the codes are     *)
(* pairwise distinct.                                                       *)
Digit == <<"0", "1", "2", "3", "4", "5", "6", "7", "8", "9">>

RECURSIVE Decimal(_)
Decimal(n) ==
    IF n < 10 THEN Digit[n + 1]
    ELSE Decimal(n \div 10) \o Digit[(n % 10) + 1]

ThreeDigits(n) ==
    IF n >= 1000 THEN Decimal(n)
    ELSE Digit[(n \div 100) + 1] \o Digit[((n \div 10) % 10) + 1]
            \o Digit[(n % 10) + 1]

IsLegacy(m) == "companies" \in DOMAIN m /\ IsDict(m["companies"])

C7_LegacyExpansion ==
    (origin = "from_dict" /\ IsLegacy(data)
        /\ "count" \in DOMAIN data["companies"].d)
        => LET n == data["companies"].d["count"].n
               items == cfg.companies.items
           IN /\ IsList(cfg.companies)
              /\ Len(items) = n
              /\ \A i \in 1..n :
                    /\ items[i].f.code = S("C" \o ThreeDigits(i))
                    /\ items[i].f.name = S("Company " \o Decimal(i))
              /\ \A i, j \in 1..n :
                    i # j => items[i].f.code # items[j].f.code

C7_Witness ==
    /\ origin = "from_dict"
    /\ IsLegacy(data)
    /\ "count" \in DOMAIN data["companies"].d
    /\ Len(cfg.companies.items) >= 10
    /\ cfg.companies.items[10].f.code = S("C010")
    /\ cfg.companies.items[3].f.name = S("Company 3")

(* C8: existing-value precedence. A legacy industry hint becomes            *)
(* global.industry exactly when the input's global section is absent or has *)
(* no industry; an industry present in the input's global section is kept.  *)
HasExplicitIndustry(m) ==
    /\ "global" \in DOMAIN m
    /\ "industry" \in DOMAIN m["global"].d
    /\ IsSet(m["global"].d["industry"])

C8_ExistingValuePrecedence ==
    (origin = "from_dict" /\ IsLegacy(data)
        /\ "industry" \in DOMAIN data["companies"].d)
        => /\ IsSet(cfg.global_settings)
           /\ cfg.global_settings.f.industry =
                 IF HasExplicitIndustry(data)
                 THEN data["global"].d["industry"]
                 ELSE data["companies"].d["industry"]

C8_Witness ==
    /\ origin = "from_dict"
    /\ IsLegacy(data)
    /\ "industry" \in DOMAIN data["companies"].d
    /\ HasExplicitIndustry(data)
    /\ data["global"].d["industry"] # data["companies"].d["industry"]
    /\ cfg.global_settings.f.industry = S("manufacturing")

(* C10: key partition. After from_dict, and in every tree returned by       *)
(* override, the extra bag holds exactly the top-level keys of the mapping  *)
(* that are not known section keys, each with its value, and none of the    *)
(* known section keys.                                                      *)
Partitions(m, c) ==
    /\ DOMAIN c.extra = DOMAIN m \ known_keys
    /\ \A k \in DOMAIN c.extra : c.extra[k] = m[k]
    /\ DOMAIN c.extra \cap known_keys = {}

C10_KeyPartition ==
    /\ origin = "from_dict" => Partitions(data, cfg)
    /\ op = "override" =>
          /\ Partitions(_deep_merge(to_dict(cfg), arg), result)
          /\ DOMAIN result.extra =
                (DOMAIN to_dict(cfg) \cup DOMAIN arg) \ known_keys

C10_Witness ==
    /\ op = "override"
    /\ "fraud" \in DOMAIN cfg.extra
    /\ "fraud" \notin DOMAIN result.extra
    /\ IsSet(result.fraud)
    /\ "custom" \in DOMAIN result.extra
    /\ result.extra["custom"] = N(7)

----------------------------------------------------------------------------
(* C11: forward compatibility. A mapping whose shapes are all supported and *)
(* which names a field key some section does not know (in a section, in an  *)
(* entry of the companies sequence, in a nested sub-section) makes          *)
(* from_dict return a tree: it never raises because of the unknown key.     *)
FromDictReturned == origin = "from_dict"
FromDictRaised == pc = "raised"
FromDictCalled == FromDictReturned \/ FromDictRaised

C11_UnknownFieldKeysDropped ==
    (FromDictCalled /\ data \in ForwardMappings) =>
        FromDictReturned /\ ~FromDictRaised

(* C12: unsupported shape. When the value under a known section key is      *)
(* neither a mapping nor, for 'companies', a sequence, from_dict raises and *)
(* returns no tree; a scalar under an unknown top-level key raises nothing. *)
ShapeSupported(k, v) ==
    v = None \/ IsDict(v) \/ (k = "companies" /\ IsList(v))

HasUnsupportedShape(m) ==
    \E k \in DOMAIN m \cap known_keys : ~ShapeSupported(k, m[k])

C12_UnsupportedShapeRaises ==
    FromDictCalled =>
        /\ HasUnsupportedShape(data) =>
              FromDictRaised /\ ~FromDictReturned
        /\ (DOMAIN data \cap known_keys = {}) => ~FromDictRaised

(* C13: Config.validate raises ConfigValidationError exactly when           *)
(* validate_config of the tree is non-empty; the exception carries the      *)
(* whole list, its paths in the fixed rule order (global.period_months,     *)
(* global.industry, companies, companies[i].code and .name by ascending i,  *)
(* chart_of_accounts.complexity, fraud.rate, transactions.anomaly_rate);    *)
(* on a tree with no violation it returns without raising.                  *)
RECURSIVE CompanyPaths(_, _)
CompanyPaths(i, n) ==
    IF i >= n THEN <<>>
    ELSE <<"companies[" \o Decimal(i) \o "].code",
           "companies[" \o Decimal(i) \o "].name">>
         \o CompanyPaths(i + 1, n)

\* the paths of the rule catalog, in rule order, for a tree of n companies
RuleOrder(n) ==
    <<"global.period_months", "global.industry", "companies">>
    \o CompanyPaths(0, n)
    \o <<"chart_of_accounts.complexity", "fraud.rate",
         "transactions.anomaly_rate">>

RankOf(path, order) == CHOOSE r \in 1..Len(order) : order[r] = path

InRuleOrder(errs, order) ==
    /\ \A k \in 1..Len(errs) : \E r \in 1..Len(order) : order[r] = errs[k].path
    /\ \A k \in 1..(Len(errs) - 1) :
          RankOf(errs[k].path, order) < RankOf(errs[k + 1].path, order)

CompanyCount(c) == IF c.companies = None THEN 0 ELSE Len(c.companies.items)

C13_ValidateRaisesFullList ==
    op = "cfg_validate" =>
        /\ (raised = "ConfigValidationError") <=> (validate_config(cfg) # <<>>)
        /\ raised \in {"none", "ConfigValidationError"}
        /\ errors = validate_config(cfg)
        /\ InRuleOrder(errors, RuleOrder(CompanyCount(cfg)))

C13_Witness ==
    /\ op = "cfg_validate"
    /\ raised = "ConfigValidationError"
    /\ Len(errors) >= 3
    /\ \E k \in 1..Len(errors) : errors[k].path = "companies[1].name"
    /\ \E k \in 1..Len(errors) : errors[k].path = "fraud.rate"

(* C14: override takes effect. After base.override(s = m) with s a known    *)
(* section key and m a mapping of canonical field names of that section,    *)
(* nested ones included, the canonical form of the result holds m's value   *)
(* at every path named in m.                                                *)
RECURSIVE HoldsAt(_, _)
HoldsAt(canon, m) ==
    /\ IsDict(canon)
    /\ \A k \in DOMAIN m.d :
          /\ k \in DOMAIN canon.d
          /\ IF IsDict(m.d[k]) THEN HoldsAt(canon.d[k], m.d[k])
             ELSE canon.d[k] = m.d[k]

C14_OverrideTakesEffect ==
    op = "override" =>
        \A s \in DOMAIN arg \cap known_keys :
            IsDict(arg[s]) =>
                /\ s \in DOMAIN to_dict(result)
                /\ HoldsAt(to_dict(result)[s], arg[s])

(* C15: entity codes are unique in a valid configuration. Validating a tree *)
(* whose companies sequence holds two entities with the same code reports   *)
(* at least one violation, and Config.validate raises.                      *)
HasDuplicateCodes(c) ==
    /\ c.companies # None
    /\ \E i, j \in 1..Len(c.companies.items) :
          /\ i # j
          /\ c.companies.items[i].f.code = c.companies.items[j].f.code

C15_DuplicateCodesRejected ==
    (op \in {"validate", "cfg_validate"} /\ HasDuplicateCodes(cfg)) =>
        /\ errors # <<>>
        /\ op = "cfg_validate" => raised = "ConfigValidationError"

(* C16: the transactions.anomaly_rate rule is enforced. For every tree      *)
(* whose transactions section has anomaly_rate below 0 or above 1, the      *)
(* typed TransactionSettings section included, validate_config returns a    *)
(* violation with path 'transactions.anomaly_rate'.                         *)
Reports(errs, path) == \E k \in 1..Len(errs) : errs[k].path = path

C16_AnomalyRateEnforced ==
    (op = "validate"
        /\ OutOfRange(FieldOf(cfg.transactions, "anomaly_rate"), 0, 1)) =>
        Reports(errors, "transactions.anomaly_rate")

(* C19: the global.period_months rule. validate_config reports a violation  *)
(* at 'global.period_months' exactly when period_months is set and is not   *)
(* an integer of 1..120: 1 and 120 are accepted, 0 and 121 rejected, an     *)
(* unset period_months accepted.                                            *)
PeriodMonthsOf(c) == FieldOf(c.global_settings, "period_months")

IsIntegerIn(v, lo, hi) == v.kind = "int" /\ v.n >= lo /\ v.n <= hi

C19_PeriodMonthsRule ==
    op = "validate" =>
        (Reports(errors, "global.period_months")
            <=> (IsSet(PeriodMonthsOf(cfg))
                    /\ ~IsIntegerIn(PeriodMonthsOf(cfg), 1, 120)))

(* C20: entity rules and paths. validate_config reports 'companies' when    *)
(* the companies sequence is absent or empty; for each index i from 0 it    *)
(* reports 'companies[i].code' exactly when entity i has an empty code and  *)
(* 'companies[i].name' exactly when it has an empty name; the index is the  *)
(* entity's position, and the violations of all entities are reported.      *)
CompanyPath(i, field) == "companies[" \o Decimal(i) \o "]." \o field

C20_EntityRulesAndPaths ==
    op = "validate" =>
        LET n == CompanyCount(cfg)
        IN /\ Reports(errors, "companies") <=> (n = 0)
           /\ \A i \in 0..(n - 1) :
                 /\ Reports(errors, CompanyPath(i, "code"))
                       <=> (cfg.companies.items[i + 1].f.code = S(""))
                 /\ Reports(errors, CompanyPath(i, "name"))
                       <=> (cfg.companies.items[i + 1].f.name = S(""))
           /\ \A k \in 1..Len(errors) :
                 \E r \in 1..Len(RuleOrder(n)) :
                     RuleOrder(n)[r] = errors[k].path

C20_Witness ==
    /\ op = "validate"
    /\ CompanyCount(cfg) = 2
    /\ Reports(errors, "companies[0].code")
    /\ Reports(errors, "companies[1].name")
    /\ ~Reports(errors, "companies[0].name")
    /\ ~Reports(errors, "companies[1].code")

(* C17: every blueprint of the registry, called with its default arguments, *)
(* returns a Config for which validate_config returns no violation and on   *)
(* which Config.validate does not raise; list() is sorted and holds         *)
(* retail_small, banking_medium and manufacturing_large.                    *)
Names(seq) == {seq[k] : k \in 1..Len(seq)}

IsSortedList(seq) ==
    \A k \in 1..(Len(seq) - 1) : StrLess(Spell(seq[k]), Spell(seq[k + 1]))

BuiltWithDefaults ==
    origin = "blueprint" /\ blueprint.args = DefaultArgs(blueprint.name)

C17_BlueprintsValidate ==
    /\ IsSortedList(list)
    /\ Names(list) = Names(_REGISTRY)
    /\ {"retail_small", "banking_medium", "manufacturing_large"}
          \subseteq Names(list)
    /\ (BuiltWithDefaults /\ op = "validate") => errors = <<>>
    /\ (BuiltWithDefaults /\ op = "cfg_validate") => raised = "none"

C17_Witness ==
    /\ BuiltWithDefaults
    /\ blueprint.name = "manufacturing_large"
    /\ Len(cfg.companies.items) = 10
    /\ op = "cfg_validate"
    /\ raised = "none"

(* C18: retail_small, banking_medium and manufacturing_large called with    *)
(* companies = n return a Config whose canonical 'companies' sequence has   *)
(* exactly n entries, the i-th (from 1) with code the blueprint's letter    *)
(* (R, F, M) followed by i zero-padded to three digits, the codes pairwise  *)
(* distinct; global.industry, global.period_months = 12 and                 *)
(* chart_of_accounts.complexity are the blueprint's fixed values.           *)
SizedBlueprints == {"retail_small", "banking_medium", "manufacturing_large"}

LetterOf(name) ==
    CASE name = "retail_small" -> "R"
      [] name = "banking_medium" -> "F"
      [] name = "manufacturing_large" -> "M"

IndustryOf(name) ==
    CASE name = "retail_small" -> "retail"
      [] name = "banking_medium" -> "financial_services"
      [] name = "manufacturing_large" -> "manufacturing"

ComplexityOf(name) ==
    CASE name = "retail_small" -> "small"
      [] name = "banking_medium" -> "medium"
      [] name = "manufacturing_large" -> "large"

C18_BlueprintCompanies ==
    (origin = "blueprint" /\ blueprint.name \in SizedBlueprints) =>
        LET n == blueprint.args.companies
            canon == to_dict(cfg)
            entries == canon["companies"].items
        IN /\ Len(entries) = n
           /\ \A i \in 1..n :
                 entries[i].d["code"]
                     = S(LetterOf(blueprint.name) \o ThreeDigits(i))
           /\ \A i, j \in 1..n :
                 i # j => entries[i].d["code"] # entries[j].d["code"]
           /\ canon["global"].d["industry"] = S(IndustryOf(blueprint.name))
           /\ canon["global"].d["period_months"] = N(12)
           /\ canon["chart_of_accounts"].d["complexity"]
                 = S(ComplexityOf(blueprint.name))

C18_Witness ==
    /\ origin = "blueprint"
    /\ blueprint.name = "banking_medium"
    /\ blueprint.args.companies = 3
    /\ to_dict(cfg)["companies"].items[3].d["code"] = S("F003")
    /\ to_dict(cfg)["companies"].items[1].d["code"] = S("F001")

----------------------------------------------------------------------------
(* C21: output shape adapter. to_dict emits output.compression as a nested  *)
(* object exactly when at least one of compression_enabled and              *)
(* compression_level is set, with 'enabled' and 'level' only for the ones   *)
(* that are set; from_dict of that canonical form recovers the same         *)
(* compression_enabled and compression_level.                               *)
CompressionKeys(output) ==
    {k \in {"enabled", "level"} : output.f["compression_" \o k] # None}

EmittedCompression(p) ==
    IF "output" \in DOMAIN p /\ "compression" \in DOMAIN p["output"].d
    THEN p["output"].d["compression"]
    ELSE None

C21_OutputShapeAdapter ==
    (op \in {"to_dict", "round_trip"} /\ cfg.output # None
        /\ "output" \notin DOMAIN cfg.extra) =>
        LET keys == CompressionKeys(cfg.output)
            emitted == EmittedCompression(payload)
        IN /\ (emitted # None) <=> (keys # {})
           /\ emitted # None =>
                 /\ DOMAIN emitted.d = keys
                 /\ \A k \in keys :
                       emitted.d[k] = cfg.output.f["compression_" \o k]
           /\ (op = "round_trip" /\ keys # {}) =>
                 /\ result.output # None
                 /\ \A k \in keys :
                       result.output.f["compression_" \o k]
                           = cfg.output.f["compression_" \o k]

(* C22: cardinality inlining. For each relationship type with a cardinality *)
(* rule, to_dict emits rule_type, and 'min' (resp. 'max') exactly when      *)
(* min_count (resp. max_count) is a positive integer: an unset, a zero and  *)
(* a negative bound are all omitted.                                        *)
IsPositive(v) == v.kind = "int" /\ v.n > 0

C22_CardinalityInlining ==
    (op = "to_dict" /\ cfg.relationships # None
        /\ cfg.relationships.f.relationship_types # None
        /\ "relationships" \notin DOMAIN cfg.extra) =>
        LET rts == cfg.relationships.f.relationship_types.items
            emitted == payload["relationships"].d["relationship_types"].items
        IN \A i \in 1..Len(rts) :
              rts[i].f.cardinality # None =>
                 LET rule == rts[i].f.cardinality.f
                     c == emitted[i].d["cardinality"].d
                 IN /\ c["rule_type"] = rule.rule_type
                    /\ ("min" \in DOMAIN c) <=> IsPositive(rule.min_count)
                    /\ ("max" \in DOMAIN c) <=> IsPositive(rule.max_count)

(* C23: deep merge rule. In _deep_merge a key present in both mappings is   *)
(* merged recursively only when both values are mappings; otherwise the     *)
(* override value replaces the base value wholesale (a typed section by its *)
(* mapping form), so a sequence under 'companies' or under                  *)
(* relationships.relationship_types is exactly the override's; keys only in *)
(* one of the two mappings are kept as they are.                            *)
RECURSIVE MergedAs(_, _, _)
MergedAs(b, o, m) ==
    /\ DOMAIN m = DOMAIN b \cup DOMAIN o
    /\ \A k \in DOMAIN m :
          IF k \notin DOMAIN o THEN m[k] = b[k]
          ELSE IF k \in DOMAIN b /\ IsDict(b[k]) /\ IsDict(o[k])
          THEN IsDict(m[k]) /\ MergedAs(b[k].d, o[k].d, m[k].d)
          ELSE IF o[k].kind = "obj" THEN m[k] = D(_strip_none(o[k].f))
          ELSE m[k] = o[k]

C23_DeepMergeRule ==
    op = "override" =>
        LET merged == _deep_merge(to_dict(cfg), arg)
        IN /\ MergedAs(to_dict(cfg), arg, merged)
           /\ \A k \in DOMAIN arg : IsList(arg[k]) => merged[k] = arg[k]
           /\ ("relationships" \in DOMAIN arg
                 /\ IsDict(arg["relationships"])
                 /\ "relationship_types" \in DOMAIN arg["relationships"].d)
              => merged["relationships"].d["relationship_types"]
                    = arg["relationships"].d["relationship_types"]

C23_Witness ==
    /\ op = "override"
    /\ "relationships" \in DOMAIN arg
    /\ cfg.relationships # None
    /\ cfg.relationships.f.enabled = B(TRUE)
    /\ cfg.relationships.f.relationship_types # None
    /\ Len(cfg.relationships.f.relationship_types.items) = 2
    /\ LET merged == _deep_merge(to_dict(cfg), arg)["relationships"].d
       IN /\ Len(merged["relationship_types"].items) = 1
          /\ merged["enabled"] = B(TRUE)

(* C24: legacy complexity fallback. from_dict sets                          *)
(* chart_of_accounts.complexity from the legacy companies object's          *)
(* 'complexity' hint exactly when the input has no chart_of_accounts        *)
(* section and companies is a legacy object carrying the hint; when the     *)
(* input has a chart_of_accounts section, even one without complexity, the  *)
(* hint is ignored.                                                         *)
HasComplexityHint(m) ==
    IsLegacy(m) /\ "complexity" \in DOMAIN m["companies"].d

C24_ComplexityFallback ==
    origin = "from_dict" =>
        IF "chart_of_accounts" \in DOMAIN data
        THEN /\ cfg.chart_of_accounts # None
             /\ cfg.chart_of_accounts.f.complexity
                   = Get(data["chart_of_accounts"].d, "complexity")
        ELSE IF HasComplexityHint(data)
        THEN /\ cfg.chart_of_accounts # None
             /\ cfg.chart_of_accounts.f.complexity
                   = data["companies"].d["complexity"]
             /\ cfg.chart_of_accounts.f.industry_specific = None
        ELSE cfg.chart_of_accounts = None

C24_Witness ==
    /\ origin = "from_dict"
    /\ HasComplexityHint(data)
    /\ "chart_of_accounts" \in DOMAIN data
    /\ "complexity" \notin DOMAIN data["chart_of_accounts"].d
    /\ cfg.chart_of_accounts # None
    /\ cfg.chart_of_accounts.f.complexity = None

(* C30: legacy industry hoisting changes nothing but the industry. When     *)
(* from_dict hoists the legacy industry hint into a global section that is  *)
(* present without an industry, the section keeps the input's start_date,   *)
(* period_months, seed, group_currency, parallel, worker_threads and        *)
(* memory_limit_mb; without an industry hint the hoisted value is 'retail', *)
(* and without a count exactly one entity is synthesized.                   *)
OtherGlobalFields ==
    {"start_date", "period_months", "seed", "group_currency", "parallel",
     "worker_threads", "memory_limit_mb"}

HoistsIntoPresentGlobal(m) ==
    /\ IsLegacy(m)
    /\ "global" \in DOMAIN m
    /\ Get(m["global"].d, "industry") = None

C30_HoistingKeepsFields ==
    (origin = "from_dict" /\ IsLegacy(data)) =>
        /\ HoistsIntoPresentGlobal(data) =>
              /\ \A f \in OtherGlobalFields :
                    cfg.global_settings.f[f] = Get(data["global"].d, f)
              /\ cfg.global_settings.f.industry
                    = GetOr(data["companies"].d, "industry", S("retail"))
        /\ ("global" \notin DOMAIN data
              /\ "industry" \notin DOMAIN data["companies"].d)
           => cfg.global_settings.f.industry = S("retail")
        /\ "count" \notin DOMAIN data["companies"].d
           => Len(cfg.companies.items) = 1

C30_Witness ==
    /\ origin = "from_dict"
    /\ HoistsIntoPresentGlobal(data)
    /\ "industry" \notin DOMAIN data["companies"].d
    /\ "count" \notin DOMAIN data["companies"].d
    /\ cfg.global_settings.f.industry = S("retail")
    /\ cfg.global_settings.f.group_currency = S("EUR")
    /\ cfg.global_settings.f.memory_limit_mb = N(5)
    /\ Len(cfg.companies.items) = 1

(* C25: current shape only. For every mapping from_dict accepts, the        *)
(* returned tree's companies is absent or a sequence of entity records, so  *)
(* to_dict of a tree returned by from_dict or override never emits          *)
(* 'companies' as a legacy object; and from_dict(to_dict(from_dict(m)))     *)
(* equals from_dict(m) in the companies and global sections.                *)
IsEntitySequence(companies) ==
    /\ IsList(companies)
    /\ \A i \in 1..Len(companies.items) :
          /\ companies.items[i].kind = "obj"
          /\ companies.items[i].cls = "CompanyConfig"

EmitsCurrentShape(p) ==
    "companies" \in DOMAIN p =>
        /\ IsList(p["companies"])
        /\ \A i \in 1..Len(p["companies"].items) :
              IsDict(p["companies"].items[i])

CurrentShapeOnly ==
    /\ origin = "from_dict" =>
          /\ cfg.companies = None \/ IsEntitySequence(cfg.companies)
          /\ EmitsCurrentShape(to_dict(cfg))
    /\ op = "override" =>
          /\ result.companies = None \/ IsEntitySequence(result.companies)
          /\ EmitsCurrentShape(to_dict(result))

C25_CurrentShapeOnly ==
    /\ CurrentShapeOnly
    /\ origin = "from_dict" =>
          LET again == from_dict(to_dict(cfg))
          IN /\ again.companies = cfg.companies
             /\ again.global_settings = cfg.global_settings

(* C29: with_graph_export(base, formats) returns a Config whose             *)
(* graph_export section is enabled with the given formats                   *)
(* (['pytorch_geometric'] when formats is None) and whose every other       *)
(* section and extra-bag entry equals base's.                               *)
GraphExportEnabledWith(c, formats) ==
    /\ c.graph_export # None
    /\ c.graph_export.f.enabled = B(TRUE)
    /\ c.graph_export.f.formats
          = (IF formats = None THEN L(<<S("pytorch_geometric")>>)
             ELSE formats)

C29_WithGraphExport ==
    op = "with_graph_export" =>
        /\ GraphExportEnabledWith(result, arg)
        /\ \A a \in Attrs \ {"graph_export"} : result[a] = cfg[a]

----------------------------------------------------------------------------
(* C26: purity of to_dict, validate_config and override *)

\* the last call was one of the reads of the shared tree
ReadTheTree == pc = "done" /\ op \in {"to_dict", "validate", "override"}

\* the results the next calls on the tree would give
ResultsOn(c) ==
    [to_dict |-> to_dict(c), validate_config |-> validate_config(c)]

----------------------------------------------------------------------------
(* C27: generate and the Config it is given *)

GenerateCalled == pc = "done" /\ op = "generate"

\* C27: DataSynth.generate leaves the Config it is given as it was: after
\* the call, whether it returned or raised, the sections and the extra bag
\* of the config, a nested "output" mapping of the extra bag included, have
\* the values they had before the call.
C27_GenerateLeavesConfig == GenerateCalled => after.cfg = cfg

----------------------------------------------------------------------------
(* C28: the order of the steps of generate *)

\* step i of the trace comes after the step named
ComesAfter(i, step) == \E j \in 1..(i - 1) : trace[j] = step

\* the steps of the trace that reach outside the process
ExternalTaken == {i \in DOMAIN trace : trace[i] \in ExternalSteps}

\* the call is one that must be refused: a config with a violation, or
\* sink='path' with no path
MustRefuse ==
    \/ validate_config(cfg) # <<>>
    \/ PathMissing(_coerce_output_spec(arg.output))

\* C28: in DataSynth.generate a directory is made, the config file is
\* written and the engine is run only after config.validate() has returned
\* and after the sink/path check has passed; for a config with a violation
\* and for sink='path' with no path, generate raises and takes none of
\* these steps.
C28_GenerateOrdering ==
    GenerateCalled =>
        /\ \A i \in ExternalTaken :
              /\ ComesAfter(i, "validated")
              /\ ComesAfter(i, "path_checked")
              /\ ~MustRefuse
        /\ MustRefuse => raised # "none" /\ ExternalTaken = {}

\* a call with sink='path' and a path that got as far as running the engine
C28_Witness ==
    /\ GenerateCalled
    /\ arg.output = ToPath
    /\ raised = "none"
    /\ \E i \in ExternalTaken : trace[i] = "run_cli"

====
